---- MODULE Spec2Model ----
(***************************************************************************)
(* Model of beorn/chalkx: terminal capability detection (detection.ts),    *)
(* the Term facade and its styling chain (term.ts), the underline and      *)
(* hyperlink functions, and the console patch (patch-console.ts).          *)
(*                                                                         *)
(* JavaScript strings are sequences of one-character strings, so that      *)
(* String.prototype.includes, toLowerCase and the ANSI regular expression  *)
(* are computed character by character.  process.env is a function whose   *)
(* domain is the set of variables that are set.                            *)
(***************************************************************************)
EXTENDS Integers, Sequences, FiniteSets, TLC

VARIABLES
  env,      \* process.env: [set of variable names -> string]
  stdout,   \* output streams: [stream id -> [isTTY, columns, rows, written]]
  stdin,    \* input streams:  [stream id -> [isTTY, setRawMode]]
  terms,    \* Terms created so far (closures of createTerm), in creation order
  chains,   \* chain proxies created so far (closures of createChainProxy)
  last,     \* the last call made by the caller and what it returned
  globals,  \* module-level state: the legacy detection cache of detection.ts
            \* and the level of the default chalk instance
  console,  \* the console object: its five methods, what the native methods
            \* have printed, and the calls made on it so far
  patches   \* PatchedConsole objects (closures of patchConsole), in creation order

vars == <<env, stdout, stdin, terms, chains, last, globals, console, patches>>

----------------------------------------------------------------------------
(* String literals of the source, as character sequences.                  *)

S_dumb == <<"d", "u", "m", "b">>
S_truecolor == <<"t", "r", "u", "e", "c", "o", "l", "o", "r">>
S_24bit == <<"2", "4", "b", "i", "t">>
S_xterm_ghostty == <<"x", "t", "e", "r", "m", "-", "g", "h", "o", "s", "t", "t", "y">>
S_xterm_kitty == <<"x", "t", "e", "r", "m", "-", "k", "i", "t", "t", "y">>
S_wezterm == <<"w", "e", "z", "t", "e", "r", "m">>
S_256color == <<"2", "5", "6", "c", "o", "l", "o", "r">>
S_256 == <<"2", "5", "6">>
S_iTerm_app == <<"i", "T", "e", "r", "m", ".", "a", "p", "p">>
S_Apple_Terminal == <<"A", "p", "p", "l", "e", "_", "T", "e", "r", "m", "i", "n", "a", "l">>
S_Ghostty == <<"G", "h", "o", "s", "t", "t", "y">>
S_WezTerm == <<"W", "e", "z", "T", "e", "r", "m">>
S_xterm == <<"x", "t", "e", "r", "m">>
S_color == <<"c", "o", "l", "o", "r">>
S_ansi == <<"a", "n", "s", "i">>
S_0 == <<"0">>
S_1 == <<"1">>
S_2 == <<"2">>
S_3 == <<"3">>
S_false == <<"f", "a", "l", "s", "e">>
S_true == <<"t", "r", "u", "e">>
S_utf_8 == <<"u", "t", "f", "-", "8">>
S_utf8 == <<"u", "t", "f", "8">>
S_rxvt == <<"r", "x", "v", "t">>
S_screen == <<"s", "c", "r", "e", "e", "n">>
S_tmux == <<"t", "m", "u", "x">>
S_xterm_256color == <<"x", "t", "e", "r", "m", "-", "2", "5", "6", "c", "o", "l", "o", "r">>
S_vt100 == <<"v", "t", "1", "0", "0">>
S_vscode == <<"v", "s", "c", "o", "d", "e">>
S_en_US_UTF_8 == <<"e", "n", "_", "U", "S", ".", "U", "T", "F", "-", "8">>
S_C == <<"C">>
S_rxvt_256 == <<"r", "x", "v", "t", "-", "2", "5", "6">>
S_st_24bit == <<"s", "t", "-", "2", "4", "b", "i", "t">>
S_empty == <<>>

(* String.prototype.includes: sub occurs in s as a contiguous substring.   *)
includes(s, sub) ==
  \E i \in 0..(Len(s) - Len(sub)) : SubSeq(s, i + 1, i + Len(sub)) = sub

(* String.prototype.toLowerCase.  A string is a sequence of UTF-16 code
   units.  A printable ASCII character is written as itself, ESC, LF, CR
   and BACKSLASH by name, and the grave accent and every other code unit
   as "U+" and its four hexadecimal digits; a character beyond U+FFFF is
   its two surrogates.
   The tables are those of the Unicode Character Database in the version
   of the runtime (17.0; a runtime with older tables leaves the characters
   added since unchanged): UPPER[k] lowers to LOWER[k], a surrogate
   pair UPPER_PAIRS[k] to LOWER_PAIRS[k]; CASED and CASE_IGNORABLE are the
   characters the Final_Sigma condition reads (a character with both
   properties counts as case-ignorable). *)
ASCII ==
  {" ", "!", "\"", "#", "$", "%", "&", "'", "(", ")", "*", "+", ",", "-",
    ".", "/", "0", "1", "2", "3", "4", "5", "6", "7", "8", "9", ":", ";",
    "<", "=", ">", "?", "@", "A", "B", "C", "D", "E", "F", "G", "H", "I",
    "J", "K", "L", "M", "N", "O", "P", "Q", "R", "S", "T", "U", "V", "W",
    "X", "Y", "Z", "[", "BACKSLASH", "]", "^", "_", "U+0060", "a", "b", "c",
    "d", "e", "f", "g", "h", "i", "j", "k", "l", "m", "n", "o", "p", "q",
    "r", "s", "t", "u", "v", "w", "x", "y", "z", "{", "|", "}", "~", "ESC",
    "LF", "CR"}

UPPER ==
  <<"A", "B", "C", "D", "E", "F", "G", "H", "I", "J", "K", "L", "M", "N",
    "O", "P", "Q", "R", "S", "T", "U", "V", "W", "X", "Y", "Z", "U+00C0",
    "U+00C1", "U+00C2", "U+00C3", "U+00C4", "U+00C5", "U+00C6", "U+00C7",
    "U+00C8", "U+00C9", "U+00CA", "U+00CB", "U+00CC", "U+00CD", "U+00CE",
    "U+00CF", "U+00D0", "U+00D1", "U+00D2", "U+00D3", "U+00D4", "U+00D5",
    "U+00D6", "U+00D8", "U+00D9", "U+00DA", "U+00DB", "U+00DC", "U+00DD",
    "U+00DE", "U+0100", "U+0102", "U+0104", "U+0106", "U+0108", "U+010A",
    "U+010C", "U+010E", "U+0110", "U+0112", "U+0114", "U+0116", "U+0118",
    "U+011A", "U+011C", "U+011E", "U+0120", "U+0122", "U+0124", "U+0126",
    "U+0128", "U+012A", "U+012C", "U+012E", "U+0132", "U+0134", "U+0136",
    "U+0139", "U+013B", "U+013D", "U+013F", "U+0141", "U+0143", "U+0145",
    "U+0147", "U+014A", "U+014C", "U+014E", "U+0150", "U+0152", "U+0154",
    "U+0156", "U+0158", "U+015A", "U+015C", "U+015E", "U+0160", "U+0162",
    "U+0164", "U+0166", "U+0168", "U+016A", "U+016C", "U+016E", "U+0170",
    "U+0172", "U+0174", "U+0176", "U+0178", "U+0179", "U+017B", "U+017D",
    "U+0181", "U+0182", "U+0184", "U+0186", "U+0187", "U+0189", "U+018A",
    "U+018B", "U+018E", "U+018F", "U+0190", "U+0191", "U+0193", "U+0194",
    "U+0196", "U+0197", "U+0198", "U+019C", "U+019D", "U+019F", "U+01A0",
    "U+01A2", "U+01A4", "U+01A6", "U+01A7", "U+01A9", "U+01AC", "U+01AE",
    "U+01AF", "U+01B1", "U+01B2", "U+01B3", "U+01B5", "U+01B7", "U+01B8",
    "U+01BC", "U+01C4", "U+01C5", "U+01C7", "U+01C8", "U+01CA", "U+01CB",
    "U+01CD", "U+01CF", "U+01D1", "U+01D3", "U+01D5", "U+01D7", "U+01D9",
    "U+01DB", "U+01DE", "U+01E0", "U+01E2", "U+01E4", "U+01E6", "U+01E8",
    "U+01EA", "U+01EC", "U+01EE", "U+01F1", "U+01F2", "U+01F4", "U+01F6",
    "U+01F7", "U+01F8", "U+01FA", "U+01FC", "U+01FE", "U+0200", "U+0202",
    "U+0204", "U+0206", "U+0208", "U+020A", "U+020C", "U+020E", "U+0210",
    "U+0212", "U+0214", "U+0216", "U+0218", "U+021A", "U+021C", "U+021E",
    "U+0220", "U+0222", "U+0224", "U+0226", "U+0228", "U+022A", "U+022C",
    "U+022E", "U+0230", "U+0232", "U+023A", "U+023B", "U+023D", "U+023E",
    "U+0241", "U+0243", "U+0244", "U+0245", "U+0246", "U+0248", "U+024A",
    "U+024C", "U+024E", "U+0370", "U+0372", "U+0376", "U+037F", "U+0386",
    "U+0388", "U+0389", "U+038A", "U+038C", "U+038E", "U+038F", "U+0391",
    "U+0392", "U+0393", "U+0394", "U+0395", "U+0396", "U+0397", "U+0398",
    "U+0399", "U+039A", "U+039B", "U+039C", "U+039D", "U+039E", "U+039F",
    "U+03A0", "U+03A1", "U+03A3", "U+03A4", "U+03A5", "U+03A6", "U+03A7",
    "U+03A8", "U+03A9", "U+03AA", "U+03AB", "U+03CF", "U+03D8", "U+03DA",
    "U+03DC", "U+03DE", "U+03E0", "U+03E2", "U+03E4", "U+03E6", "U+03E8",
    "U+03EA", "U+03EC", "U+03EE", "U+03F4", "U+03F7", "U+03F9", "U+03FA",
    "U+03FD", "U+03FE", "U+03FF", "U+0400", "U+0401", "U+0402", "U+0403",
    "U+0404", "U+0405", "U+0406", "U+0407", "U+0408", "U+0409", "U+040A",
    "U+040B", "U+040C", "U+040D", "U+040E", "U+040F", "U+0410", "U+0411",
    "U+0412", "U+0413", "U+0414", "U+0415", "U+0416", "U+0417", "U+0418",
    "U+0419", "U+041A", "U+041B", "U+041C", "U+041D", "U+041E", "U+041F",
    "U+0420", "U+0421", "U+0422", "U+0423", "U+0424", "U+0425", "U+0426",
    "U+0427", "U+0428", "U+0429", "U+042A", "U+042B", "U+042C", "U+042D",
    "U+042E", "U+042F", "U+0460", "U+0462", "U+0464", "U+0466", "U+0468",
    "U+046A", "U+046C", "U+046E", "U+0470", "U+0472", "U+0474", "U+0476",
    "U+0478", "U+047A", "U+047C", "U+047E", "U+0480", "U+048A", "U+048C",
    "U+048E", "U+0490", "U+0492", "U+0494", "U+0496", "U+0498", "U+049A",
    "U+049C", "U+049E", "U+04A0", "U+04A2", "U+04A4", "U+04A6", "U+04A8",
    "U+04AA", "U+04AC", "U+04AE", "U+04B0", "U+04B2", "U+04B4", "U+04B6",
    "U+04B8", "U+04BA", "U+04BC", "U+04BE", "U+04C0", "U+04C1", "U+04C3",
    "U+04C5", "U+04C7", "U+04C9", "U+04CB", "U+04CD", "U+04D0", "U+04D2",
    "U+04D4", "U+04D6", "U+04D8", "U+04DA", "U+04DC", "U+04DE", "U+04E0",
    "U+04E2", "U+04E4", "U+04E6", "U+04E8", "U+04EA", "U+04EC", "U+04EE",
    "U+04F0", "U+04F2", "U+04F4", "U+04F6", "U+04F8", "U+04FA", "U+04FC",
    "U+04FE", "U+0500", "U+0502", "U+0504", "U+0506", "U+0508", "U+050A",
    "U+050C", "U+050E", "U+0510", "U+0512", "U+0514", "U+0516", "U+0518",
    "U+051A", "U+051C", "U+051E", "U+0520", "U+0522", "U+0524", "U+0526",
    "U+0528", "U+052A", "U+052C", "U+052E", "U+0531", "U+0532", "U+0533",
    "U+0534", "U+0535", "U+0536", "U+0537", "U+0538", "U+0539", "U+053A",
    "U+053B", "U+053C", "U+053D", "U+053E", "U+053F", "U+0540", "U+0541",
    "U+0542", "U+0543", "U+0544", "U+0545", "U+0546", "U+0547", "U+0548",
    "U+0549", "U+054A", "U+054B", "U+054C", "U+054D", "U+054E", "U+054F",
    "U+0550", "U+0551", "U+0552", "U+0553", "U+0554", "U+0555", "U+0556",
    "U+10A0", "U+10A1", "U+10A2", "U+10A3", "U+10A4", "U+10A5", "U+10A6",
    "U+10A7", "U+10A8", "U+10A9", "U+10AA", "U+10AB", "U+10AC", "U+10AD",
    "U+10AE", "U+10AF", "U+10B0", "U+10B1", "U+10B2", "U+10B3", "U+10B4",
    "U+10B5", "U+10B6", "U+10B7", "U+10B8", "U+10B9", "U+10BA", "U+10BB",
    "U+10BC", "U+10BD", "U+10BE", "U+10BF", "U+10C0", "U+10C1", "U+10C2",
    "U+10C3", "U+10C4", "U+10C5", "U+10C7", "U+10CD", "U+13A0", "U+13A1",
    "U+13A2", "U+13A3", "U+13A4", "U+13A5", "U+13A6", "U+13A7", "U+13A8",
    "U+13A9", "U+13AA", "U+13AB", "U+13AC", "U+13AD", "U+13AE", "U+13AF",
    "U+13B0", "U+13B1", "U+13B2", "U+13B3", "U+13B4", "U+13B5", "U+13B6",
    "U+13B7", "U+13B8", "U+13B9", "U+13BA", "U+13BB", "U+13BC", "U+13BD",
    "U+13BE", "U+13BF", "U+13C0", "U+13C1", "U+13C2", "U+13C3", "U+13C4",
    "U+13C5", "U+13C6", "U+13C7", "U+13C8", "U+13C9", "U+13CA", "U+13CB",
    "U+13CC", "U+13CD", "U+13CE", "U+13CF", "U+13D0", "U+13D1", "U+13D2",
    "U+13D3", "U+13D4", "U+13D5", "U+13D6", "U+13D7", "U+13D8", "U+13D9",
    "U+13DA", "U+13DB", "U+13DC", "U+13DD", "U+13DE", "U+13DF", "U+13E0",
    "U+13E1", "U+13E2", "U+13E3", "U+13E4", "U+13E5", "U+13E6", "U+13E7",
    "U+13E8", "U+13E9", "U+13EA", "U+13EB", "U+13EC", "U+13ED", "U+13EE",
    "U+13EF", "U+13F0", "U+13F1", "U+13F2", "U+13F3", "U+13F4", "U+13F5",
    "U+1C89", "U+1C90", "U+1C91", "U+1C92", "U+1C93", "U+1C94", "U+1C95",
    "U+1C96", "U+1C97", "U+1C98", "U+1C99", "U+1C9A", "U+1C9B", "U+1C9C",
    "U+1C9D", "U+1C9E", "U+1C9F", "U+1CA0", "U+1CA1", "U+1CA2", "U+1CA3",
    "U+1CA4", "U+1CA5", "U+1CA6", "U+1CA7", "U+1CA8", "U+1CA9", "U+1CAA",
    "U+1CAB", "U+1CAC", "U+1CAD", "U+1CAE", "U+1CAF", "U+1CB0", "U+1CB1",
    "U+1CB2", "U+1CB3", "U+1CB4", "U+1CB5", "U+1CB6", "U+1CB7", "U+1CB8",
    "U+1CB9", "U+1CBA", "U+1CBD", "U+1CBE", "U+1CBF", "U+1E00", "U+1E02",
    "U+1E04", "U+1E06", "U+1E08", "U+1E0A", "U+1E0C", "U+1E0E", "U+1E10",
    "U+1E12", "U+1E14", "U+1E16", "U+1E18", "U+1E1A", "U+1E1C", "U+1E1E",
    "U+1E20", "U+1E22", "U+1E24", "U+1E26", "U+1E28", "U+1E2A", "U+1E2C",
    "U+1E2E", "U+1E30", "U+1E32", "U+1E34", "U+1E36", "U+1E38", "U+1E3A",
    "U+1E3C", "U+1E3E", "U+1E40", "U+1E42", "U+1E44", "U+1E46", "U+1E48",
    "U+1E4A", "U+1E4C", "U+1E4E", "U+1E50", "U+1E52", "U+1E54", "U+1E56",
    "U+1E58", "U+1E5A", "U+1E5C", "U+1E5E", "U+1E60", "U+1E62", "U+1E64",
    "U+1E66", "U+1E68", "U+1E6A", "U+1E6C", "U+1E6E", "U+1E70", "U+1E72",
    "U+1E74", "U+1E76", "U+1E78", "U+1E7A", "U+1E7C", "U+1E7E", "U+1E80",
    "U+1E82", "U+1E84", "U+1E86", "U+1E88", "U+1E8A", "U+1E8C", "U+1E8E",
    "U+1E90", "U+1E92", "U+1E94", "U+1E9E", "U+1EA0", "U+1EA2", "U+1EA4",
    "U+1EA6", "U+1EA8", "U+1EAA", "U+1EAC", "U+1EAE", "U+1EB0", "U+1EB2",
    "U+1EB4", "U+1EB6", "U+1EB8", "U+1EBA", "U+1EBC", "U+1EBE", "U+1EC0",
    "U+1EC2", "U+1EC4", "U+1EC6", "U+1EC8", "U+1ECA", "U+1ECC", "U+1ECE",
    "U+1ED0", "U+1ED2", "U+1ED4", "U+1ED6", "U+1ED8", "U+1EDA", "U+1EDC",
    "U+1EDE", "U+1EE0", "U+1EE2", "U+1EE4", "U+1EE6", "U+1EE8", "U+1EEA",
    "U+1EEC", "U+1EEE", "U+1EF0", "U+1EF2", "U+1EF4", "U+1EF6", "U+1EF8",
    "U+1EFA", "U+1EFC", "U+1EFE", "U+1F08", "U+1F09", "U+1F0A", "U+1F0B",
    "U+1F0C", "U+1F0D", "U+1F0E", "U+1F0F", "U+1F18", "U+1F19", "U+1F1A",
    "U+1F1B", "U+1F1C", "U+1F1D", "U+1F28", "U+1F29", "U+1F2A", "U+1F2B",
    "U+1F2C", "U+1F2D", "U+1F2E", "U+1F2F", "U+1F38", "U+1F39", "U+1F3A",
    "U+1F3B", "U+1F3C", "U+1F3D", "U+1F3E", "U+1F3F", "U+1F48", "U+1F49",
    "U+1F4A", "U+1F4B", "U+1F4C", "U+1F4D", "U+1F59", "U+1F5B", "U+1F5D",
    "U+1F5F", "U+1F68", "U+1F69", "U+1F6A", "U+1F6B", "U+1F6C", "U+1F6D",
    "U+1F6E", "U+1F6F", "U+1F88", "U+1F89", "U+1F8A", "U+1F8B", "U+1F8C",
    "U+1F8D", "U+1F8E", "U+1F8F", "U+1F98", "U+1F99", "U+1F9A", "U+1F9B",
    "U+1F9C", "U+1F9D", "U+1F9E", "U+1F9F", "U+1FA8", "U+1FA9", "U+1FAA",
    "U+1FAB", "U+1FAC", "U+1FAD", "U+1FAE", "U+1FAF", "U+1FB8", "U+1FB9",
    "U+1FBA", "U+1FBB", "U+1FBC", "U+1FC8", "U+1FC9", "U+1FCA", "U+1FCB",
    "U+1FCC", "U+1FD8", "U+1FD9", "U+1FDA", "U+1FDB", "U+1FE8", "U+1FE9",
    "U+1FEA", "U+1FEB", "U+1FEC", "U+1FF8", "U+1FF9", "U+1FFA", "U+1FFB",
    "U+1FFC", "U+2126", "U+212A", "U+212B", "U+2132", "U+2160", "U+2161",
    "U+2162", "U+2163", "U+2164", "U+2165", "U+2166", "U+2167", "U+2168",
    "U+2169", "U+216A", "U+216B", "U+216C", "U+216D", "U+216E", "U+216F",
    "U+2183", "U+24B6", "U+24B7", "U+24B8", "U+24B9", "U+24BA", "U+24BB",
    "U+24BC", "U+24BD", "U+24BE", "U+24BF", "U+24C0", "U+24C1", "U+24C2",
    "U+24C3", "U+24C4", "U+24C5", "U+24C6", "U+24C7", "U+24C8", "U+24C9",
    "U+24CA", "U+24CB", "U+24CC", "U+24CD", "U+24CE", "U+24CF", "U+2C00",
    "U+2C01", "U+2C02", "U+2C03", "U+2C04", "U+2C05", "U+2C06", "U+2C07",
    "U+2C08", "U+2C09", "U+2C0A", "U+2C0B", "U+2C0C", "U+2C0D", "U+2C0E",
    "U+2C0F", "U+2C10", "U+2C11", "U+2C12", "U+2C13", "U+2C14", "U+2C15",
    "U+2C16", "U+2C17", "U+2C18", "U+2C19", "U+2C1A", "U+2C1B", "U+2C1C",
    "U+2C1D", "U+2C1E", "U+2C1F", "U+2C20", "U+2C21", "U+2C22", "U+2C23",
    "U+2C24", "U+2C25", "U+2C26", "U+2C27", "U+2C28", "U+2C29", "U+2C2A",
    "U+2C2B", "U+2C2C", "U+2C2D", "U+2C2E", "U+2C2F", "U+2C60", "U+2C62",
    "U+2C63", "U+2C64", "U+2C67", "U+2C69", "U+2C6B", "U+2C6D", "U+2C6E",
    "U+2C6F", "U+2C70", "U+2C72", "U+2C75", "U+2C7E", "U+2C7F", "U+2C80",
    "U+2C82", "U+2C84", "U+2C86", "U+2C88", "U+2C8A", "U+2C8C", "U+2C8E",
    "U+2C90", "U+2C92", "U+2C94", "U+2C96", "U+2C98", "U+2C9A", "U+2C9C",
    "U+2C9E", "U+2CA0", "U+2CA2", "U+2CA4", "U+2CA6", "U+2CA8", "U+2CAA",
    "U+2CAC", "U+2CAE", "U+2CB0", "U+2CB2", "U+2CB4", "U+2CB6", "U+2CB8",
    "U+2CBA", "U+2CBC", "U+2CBE", "U+2CC0", "U+2CC2", "U+2CC4", "U+2CC6",
    "U+2CC8", "U+2CCA", "U+2CCC", "U+2CCE", "U+2CD0", "U+2CD2", "U+2CD4",
    "U+2CD6", "U+2CD8", "U+2CDA", "U+2CDC", "U+2CDE", "U+2CE0", "U+2CE2",
    "U+2CEB", "U+2CED", "U+2CF2", "U+A640", "U+A642", "U+A644", "U+A646",
    "U+A648", "U+A64A", "U+A64C", "U+A64E", "U+A650", "U+A652", "U+A654",
    "U+A656", "U+A658", "U+A65A", "U+A65C", "U+A65E", "U+A660", "U+A662",
    "U+A664", "U+A666", "U+A668", "U+A66A", "U+A66C", "U+A680", "U+A682",
    "U+A684", "U+A686", "U+A688", "U+A68A", "U+A68C", "U+A68E", "U+A690",
    "U+A692", "U+A694", "U+A696", "U+A698", "U+A69A", "U+A722", "U+A724",
    "U+A726", "U+A728", "U+A72A", "U+A72C", "U+A72E", "U+A732", "U+A734",
    "U+A736", "U+A738", "U+A73A", "U+A73C", "U+A73E", "U+A740", "U+A742",
    "U+A744", "U+A746", "U+A748", "U+A74A", "U+A74C", "U+A74E", "U+A750",
    "U+A752", "U+A754", "U+A756", "U+A758", "U+A75A", "U+A75C", "U+A75E",
    "U+A760", "U+A762", "U+A764", "U+A766", "U+A768", "U+A76A", "U+A76C",
    "U+A76E", "U+A779", "U+A77B", "U+A77D", "U+A77E", "U+A780", "U+A782",
    "U+A784", "U+A786", "U+A78B", "U+A78D", "U+A790", "U+A792", "U+A796",
    "U+A798", "U+A79A", "U+A79C", "U+A79E", "U+A7A0", "U+A7A2", "U+A7A4",
    "U+A7A6", "U+A7A8", "U+A7AA", "U+A7AB", "U+A7AC", "U+A7AD", "U+A7AE",
    "U+A7B0", "U+A7B1", "U+A7B2", "U+A7B3", "U+A7B4", "U+A7B6", "U+A7B8",
    "U+A7BA", "U+A7BC", "U+A7BE", "U+A7C0", "U+A7C2", "U+A7C4", "U+A7C5",
    "U+A7C6", "U+A7C7", "U+A7C9", "U+A7CB", "U+A7CC", "U+A7CE", "U+A7D0",
    "U+A7D2", "U+A7D4", "U+A7D6", "U+A7D8", "U+A7DA", "U+A7DC", "U+A7F5",
    "U+FF21", "U+FF22", "U+FF23", "U+FF24", "U+FF25", "U+FF26", "U+FF27",
    "U+FF28", "U+FF29", "U+FF2A", "U+FF2B", "U+FF2C", "U+FF2D", "U+FF2E",
    "U+FF2F", "U+FF30", "U+FF31", "U+FF32", "U+FF33", "U+FF34", "U+FF35",
    "U+FF36", "U+FF37", "U+FF38", "U+FF39", "U+FF3A">>

LOWER ==
  <<"a", "b", "c", "d", "e", "f", "g", "h", "i", "j", "k", "l", "m", "n",
    "o", "p", "q", "r", "s", "t", "u", "v", "w", "x", "y", "z", "U+00E0",
    "U+00E1", "U+00E2", "U+00E3", "U+00E4", "U+00E5", "U+00E6", "U+00E7",
    "U+00E8", "U+00E9", "U+00EA", "U+00EB", "U+00EC", "U+00ED", "U+00EE",
    "U+00EF", "U+00F0", "U+00F1", "U+00F2", "U+00F3", "U+00F4", "U+00F5",
    "U+00F6", "U+00F8", "U+00F9", "U+00FA", "U+00FB", "U+00FC", "U+00FD",
    "U+00FE", "U+0101", "U+0103", "U+0105", "U+0107", "U+0109", "U+010B",
    "U+010D", "U+010F", "U+0111", "U+0113", "U+0115", "U+0117", "U+0119",
    "U+011B", "U+011D", "U+011F", "U+0121", "U+0123", "U+0125", "U+0127",
    "U+0129", "U+012B", "U+012D", "U+012F", "U+0133", "U+0135", "U+0137",
    "U+013A", "U+013C", "U+013E", "U+0140", "U+0142", "U+0144", "U+0146",
    "U+0148", "U+014B", "U+014D", "U+014F", "U+0151", "U+0153", "U+0155",
    "U+0157", "U+0159", "U+015B", "U+015D", "U+015F", "U+0161", "U+0163",
    "U+0165", "U+0167", "U+0169", "U+016B", "U+016D", "U+016F", "U+0171",
    "U+0173", "U+0175", "U+0177", "U+00FF", "U+017A", "U+017C", "U+017E",
    "U+0253", "U+0183", "U+0185", "U+0254", "U+0188", "U+0256", "U+0257",
    "U+018C", "U+01DD", "U+0259", "U+025B", "U+0192", "U+0260", "U+0263",
    "U+0269", "U+0268", "U+0199", "U+026F", "U+0272", "U+0275", "U+01A1",
    "U+01A3", "U+01A5", "U+0280", "U+01A8", "U+0283", "U+01AD", "U+0288",
    "U+01B0", "U+028A", "U+028B", "U+01B4", "U+01B6", "U+0292", "U+01B9",
    "U+01BD", "U+01C6", "U+01C6", "U+01C9", "U+01C9", "U+01CC", "U+01CC",
    "U+01CE", "U+01D0", "U+01D2", "U+01D4", "U+01D6", "U+01D8", "U+01DA",
    "U+01DC", "U+01DF", "U+01E1", "U+01E3", "U+01E5", "U+01E7", "U+01E9",
    "U+01EB", "U+01ED", "U+01EF", "U+01F3", "U+01F3", "U+01F5", "U+0195",
    "U+01BF", "U+01F9", "U+01FB", "U+01FD", "U+01FF", "U+0201", "U+0203",
    "U+0205", "U+0207", "U+0209", "U+020B", "U+020D", "U+020F", "U+0211",
    "U+0213", "U+0215", "U+0217", "U+0219", "U+021B", "U+021D", "U+021F",
    "U+019E", "U+0223", "U+0225", "U+0227", "U+0229", "U+022B", "U+022D",
    "U+022F", "U+0231", "U+0233", "U+2C65", "U+023C", "U+019A", "U+2C66",
    "U+0242", "U+0180", "U+0289", "U+028C", "U+0247", "U+0249", "U+024B",
    "U+024D", "U+024F", "U+0371", "U+0373", "U+0377", "U+03F3", "U+03AC",
    "U+03AD", "U+03AE", "U+03AF", "U+03CC", "U+03CD", "U+03CE", "U+03B1",
    "U+03B2", "U+03B3", "U+03B4", "U+03B5", "U+03B6", "U+03B7", "U+03B8",
    "U+03B9", "U+03BA", "U+03BB", "U+03BC", "U+03BD", "U+03BE", "U+03BF",
    "U+03C0", "U+03C1", "U+03C3", "U+03C4", "U+03C5", "U+03C6", "U+03C7",
    "U+03C8", "U+03C9", "U+03CA", "U+03CB", "U+03D7", "U+03D9", "U+03DB",
    "U+03DD", "U+03DF", "U+03E1", "U+03E3", "U+03E5", "U+03E7", "U+03E9",
    "U+03EB", "U+03ED", "U+03EF", "U+03B8", "U+03F8", "U+03F2", "U+03FB",
    "U+037B", "U+037C", "U+037D", "U+0450", "U+0451", "U+0452", "U+0453",
    "U+0454", "U+0455", "U+0456", "U+0457", "U+0458", "U+0459", "U+045A",
    "U+045B", "U+045C", "U+045D", "U+045E", "U+045F", "U+0430", "U+0431",
    "U+0432", "U+0433", "U+0434", "U+0435", "U+0436", "U+0437", "U+0438",
    "U+0439", "U+043A", "U+043B", "U+043C", "U+043D", "U+043E", "U+043F",
    "U+0440", "U+0441", "U+0442", "U+0443", "U+0444", "U+0445", "U+0446",
    "U+0447", "U+0448", "U+0449", "U+044A", "U+044B", "U+044C", "U+044D",
    "U+044E", "U+044F", "U+0461", "U+0463", "U+0465", "U+0467", "U+0469",
    "U+046B", "U+046D", "U+046F", "U+0471", "U+0473", "U+0475", "U+0477",
    "U+0479", "U+047B", "U+047D", "U+047F", "U+0481", "U+048B", "U+048D",
    "U+048F", "U+0491", "U+0493", "U+0495", "U+0497", "U+0499", "U+049B",
    "U+049D", "U+049F", "U+04A1", "U+04A3", "U+04A5", "U+04A7", "U+04A9",
    "U+04AB", "U+04AD", "U+04AF", "U+04B1", "U+04B3", "U+04B5", "U+04B7",
    "U+04B9", "U+04BB", "U+04BD", "U+04BF", "U+04CF", "U+04C2", "U+04C4",
    "U+04C6", "U+04C8", "U+04CA", "U+04CC", "U+04CE", "U+04D1", "U+04D3",
    "U+04D5", "U+04D7", "U+04D9", "U+04DB", "U+04DD", "U+04DF", "U+04E1",
    "U+04E3", "U+04E5", "U+04E7", "U+04E9", "U+04EB", "U+04ED", "U+04EF",
    "U+04F1", "U+04F3", "U+04F5", "U+04F7", "U+04F9", "U+04FB", "U+04FD",
    "U+04FF", "U+0501", "U+0503", "U+0505", "U+0507", "U+0509", "U+050B",
    "U+050D", "U+050F", "U+0511", "U+0513", "U+0515", "U+0517", "U+0519",
    "U+051B", "U+051D", "U+051F", "U+0521", "U+0523", "U+0525", "U+0527",
    "U+0529", "U+052B", "U+052D", "U+052F", "U+0561", "U+0562", "U+0563",
    "U+0564", "U+0565", "U+0566", "U+0567", "U+0568", "U+0569", "U+056A",
    "U+056B", "U+056C", "U+056D", "U+056E", "U+056F", "U+0570", "U+0571",
    "U+0572", "U+0573", "U+0574", "U+0575", "U+0576", "U+0577", "U+0578",
    "U+0579", "U+057A", "U+057B", "U+057C", "U+057D", "U+057E", "U+057F",
    "U+0580", "U+0581", "U+0582", "U+0583", "U+0584", "U+0585", "U+0586",
    "U+2D00", "U+2D01", "U+2D02", "U+2D03", "U+2D04", "U+2D05", "U+2D06",
    "U+2D07", "U+2D08", "U+2D09", "U+2D0A", "U+2D0B", "U+2D0C", "U+2D0D",
    "U+2D0E", "U+2D0F", "U+2D10", "U+2D11", "U+2D12", "U+2D13", "U+2D14",
    "U+2D15", "U+2D16", "U+2D17", "U+2D18", "U+2D19", "U+2D1A", "U+2D1B",
    "U+2D1C", "U+2D1D", "U+2D1E", "U+2D1F", "U+2D20", "U+2D21", "U+2D22",
    "U+2D23", "U+2D24", "U+2D25", "U+2D27", "U+2D2D", "U+AB70", "U+AB71",
    "U+AB72", "U+AB73", "U+AB74", "U+AB75", "U+AB76", "U+AB77", "U+AB78",
    "U+AB79", "U+AB7A", "U+AB7B", "U+AB7C", "U+AB7D", "U+AB7E", "U+AB7F",
    "U+AB80", "U+AB81", "U+AB82", "U+AB83", "U+AB84", "U+AB85", "U+AB86",
    "U+AB87", "U+AB88", "U+AB89", "U+AB8A", "U+AB8B", "U+AB8C", "U+AB8D",
    "U+AB8E", "U+AB8F", "U+AB90", "U+AB91", "U+AB92", "U+AB93", "U+AB94",
    "U+AB95", "U+AB96", "U+AB97", "U+AB98", "U+AB99", "U+AB9A", "U+AB9B",
    "U+AB9C", "U+AB9D", "U+AB9E", "U+AB9F", "U+ABA0", "U+ABA1", "U+ABA2",
    "U+ABA3", "U+ABA4", "U+ABA5", "U+ABA6", "U+ABA7", "U+ABA8", "U+ABA9",
    "U+ABAA", "U+ABAB", "U+ABAC", "U+ABAD", "U+ABAE", "U+ABAF", "U+ABB0",
    "U+ABB1", "U+ABB2", "U+ABB3", "U+ABB4", "U+ABB5", "U+ABB6", "U+ABB7",
    "U+ABB8", "U+ABB9", "U+ABBA", "U+ABBB", "U+ABBC", "U+ABBD", "U+ABBE",
    "U+ABBF", "U+13F8", "U+13F9", "U+13FA", "U+13FB", "U+13FC", "U+13FD",
    "U+1C8A", "U+10D0", "U+10D1", "U+10D2", "U+10D3", "U+10D4", "U+10D5",
    "U+10D6", "U+10D7", "U+10D8", "U+10D9", "U+10DA", "U+10DB", "U+10DC",
    "U+10DD", "U+10DE", "U+10DF", "U+10E0", "U+10E1", "U+10E2", "U+10E3",
    "U+10E4", "U+10E5", "U+10E6", "U+10E7", "U+10E8", "U+10E9", "U+10EA",
    "U+10EB", "U+10EC", "U+10ED", "U+10EE", "U+10EF", "U+10F0", "U+10F1",
    "U+10F2", "U+10F3", "U+10F4", "U+10F5", "U+10F6", "U+10F7", "U+10F8",
    "U+10F9", "U+10FA", "U+10FD", "U+10FE", "U+10FF", "U+1E01", "U+1E03",
    "U+1E05", "U+1E07", "U+1E09", "U+1E0B", "U+1E0D", "U+1E0F", "U+1E11",
    "U+1E13", "U+1E15", "U+1E17", "U+1E19", "U+1E1B", "U+1E1D", "U+1E1F",
    "U+1E21", "U+1E23", "U+1E25", "U+1E27", "U+1E29", "U+1E2B", "U+1E2D",
    "U+1E2F", "U+1E31", "U+1E33", "U+1E35", "U+1E37", "U+1E39", "U+1E3B",
    "U+1E3D", "U+1E3F", "U+1E41", "U+1E43", "U+1E45", "U+1E47", "U+1E49",
    "U+1E4B", "U+1E4D", "U+1E4F", "U+1E51", "U+1E53", "U+1E55", "U+1E57",
    "U+1E59", "U+1E5B", "U+1E5D", "U+1E5F", "U+1E61", "U+1E63", "U+1E65",
    "U+1E67", "U+1E69", "U+1E6B", "U+1E6D", "U+1E6F", "U+1E71", "U+1E73",
    "U+1E75", "U+1E77", "U+1E79", "U+1E7B", "U+1E7D", "U+1E7F", "U+1E81",
    "U+1E83", "U+1E85", "U+1E87", "U+1E89", "U+1E8B", "U+1E8D", "U+1E8F",
    "U+1E91", "U+1E93", "U+1E95", "U+00DF", "U+1EA1", "U+1EA3", "U+1EA5",
    "U+1EA7", "U+1EA9", "U+1EAB", "U+1EAD", "U+1EAF", "U+1EB1", "U+1EB3",
    "U+1EB5", "U+1EB7", "U+1EB9", "U+1EBB", "U+1EBD", "U+1EBF", "U+1EC1",
    "U+1EC3", "U+1EC5", "U+1EC7", "U+1EC9", "U+1ECB", "U+1ECD", "U+1ECF",
    "U+1ED1", "U+1ED3", "U+1ED5", "U+1ED7", "U+1ED9", "U+1EDB", "U+1EDD",
    "U+1EDF", "U+1EE1", "U+1EE3", "U+1EE5", "U+1EE7", "U+1EE9", "U+1EEB",
    "U+1EED", "U+1EEF", "U+1EF1", "U+1EF3", "U+1EF5", "U+1EF7", "U+1EF9",
    "U+1EFB", "U+1EFD", "U+1EFF", "U+1F00", "U+1F01", "U+1F02", "U+1F03",
    "U+1F04", "U+1F05", "U+1F06", "U+1F07", "U+1F10", "U+1F11", "U+1F12",
    "U+1F13", "U+1F14", "U+1F15", "U+1F20", "U+1F21", "U+1F22", "U+1F23",
    "U+1F24", "U+1F25", "U+1F26", "U+1F27", "U+1F30", "U+1F31", "U+1F32",
    "U+1F33", "U+1F34", "U+1F35", "U+1F36", "U+1F37", "U+1F40", "U+1F41",
    "U+1F42", "U+1F43", "U+1F44", "U+1F45", "U+1F51", "U+1F53", "U+1F55",
    "U+1F57", "U+1F60", "U+1F61", "U+1F62", "U+1F63", "U+1F64", "U+1F65",
    "U+1F66", "U+1F67", "U+1F80", "U+1F81", "U+1F82", "U+1F83", "U+1F84",
    "U+1F85", "U+1F86", "U+1F87", "U+1F90", "U+1F91", "U+1F92", "U+1F93",
    "U+1F94", "U+1F95", "U+1F96", "U+1F97", "U+1FA0", "U+1FA1", "U+1FA2",
    "U+1FA3", "U+1FA4", "U+1FA5", "U+1FA6", "U+1FA7", "U+1FB0", "U+1FB1",
    "U+1F70", "U+1F71", "U+1FB3", "U+1F72", "U+1F73", "U+1F74", "U+1F75",
    "U+1FC3", "U+1FD0", "U+1FD1", "U+1F76", "U+1F77", "U+1FE0", "U+1FE1",
    "U+1F7A", "U+1F7B", "U+1FE5", "U+1F78", "U+1F79", "U+1F7C", "U+1F7D",
    "U+1FF3", "U+03C9", "k", "U+00E5", "U+214E", "U+2170", "U+2171",
    "U+2172", "U+2173", "U+2174", "U+2175", "U+2176", "U+2177", "U+2178",
    "U+2179", "U+217A", "U+217B", "U+217C", "U+217D", "U+217E", "U+217F",
    "U+2184", "U+24D0", "U+24D1", "U+24D2", "U+24D3", "U+24D4", "U+24D5",
    "U+24D6", "U+24D7", "U+24D8", "U+24D9", "U+24DA", "U+24DB", "U+24DC",
    "U+24DD", "U+24DE", "U+24DF", "U+24E0", "U+24E1", "U+24E2", "U+24E3",
    "U+24E4", "U+24E5", "U+24E6", "U+24E7", "U+24E8", "U+24E9", "U+2C30",
    "U+2C31", "U+2C32", "U+2C33", "U+2C34", "U+2C35", "U+2C36", "U+2C37",
    "U+2C38", "U+2C39", "U+2C3A", "U+2C3B", "U+2C3C", "U+2C3D", "U+2C3E",
    "U+2C3F", "U+2C40", "U+2C41", "U+2C42", "U+2C43", "U+2C44", "U+2C45",
    "U+2C46", "U+2C47", "U+2C48", "U+2C49", "U+2C4A", "U+2C4B", "U+2C4C",
    "U+2C4D", "U+2C4E", "U+2C4F", "U+2C50", "U+2C51", "U+2C52", "U+2C53",
    "U+2C54", "U+2C55", "U+2C56", "U+2C57", "U+2C58", "U+2C59", "U+2C5A",
    "U+2C5B", "U+2C5C", "U+2C5D", "U+2C5E", "U+2C5F", "U+2C61", "U+026B",
    "U+1D7D", "U+027D", "U+2C68", "U+2C6A", "U+2C6C", "U+0251", "U+0271",
    "U+0250", "U+0252", "U+2C73", "U+2C76", "U+023F", "U+0240", "U+2C81",
    "U+2C83", "U+2C85", "U+2C87", "U+2C89", "U+2C8B", "U+2C8D", "U+2C8F",
    "U+2C91", "U+2C93", "U+2C95", "U+2C97", "U+2C99", "U+2C9B", "U+2C9D",
    "U+2C9F", "U+2CA1", "U+2CA3", "U+2CA5", "U+2CA7", "U+2CA9", "U+2CAB",
    "U+2CAD", "U+2CAF", "U+2CB1", "U+2CB3", "U+2CB5", "U+2CB7", "U+2CB9",
    "U+2CBB", "U+2CBD", "U+2CBF", "U+2CC1", "U+2CC3", "U+2CC5", "U+2CC7",
    "U+2CC9", "U+2CCB", "U+2CCD", "U+2CCF", "U+2CD1", "U+2CD3", "U+2CD5",
    "U+2CD7", "U+2CD9", "U+2CDB", "U+2CDD", "U+2CDF", "U+2CE1", "U+2CE3",
    "U+2CEC", "U+2CEE", "U+2CF3", "U+A641", "U+A643", "U+A645", "U+A647",
    "U+A649", "U+A64B", "U+A64D", "U+A64F", "U+A651", "U+A653", "U+A655",
    "U+A657", "U+A659", "U+A65B", "U+A65D", "U+A65F", "U+A661", "U+A663",
    "U+A665", "U+A667", "U+A669", "U+A66B", "U+A66D", "U+A681", "U+A683",
    "U+A685", "U+A687", "U+A689", "U+A68B", "U+A68D", "U+A68F", "U+A691",
    "U+A693", "U+A695", "U+A697", "U+A699", "U+A69B", "U+A723", "U+A725",
    "U+A727", "U+A729", "U+A72B", "U+A72D", "U+A72F", "U+A733", "U+A735",
    "U+A737", "U+A739", "U+A73B", "U+A73D", "U+A73F", "U+A741", "U+A743",
    "U+A745", "U+A747", "U+A749", "U+A74B", "U+A74D", "U+A74F", "U+A751",
    "U+A753", "U+A755", "U+A757", "U+A759", "U+A75B", "U+A75D", "U+A75F",
    "U+A761", "U+A763", "U+A765", "U+A767", "U+A769", "U+A76B", "U+A76D",
    "U+A76F", "U+A77A", "U+A77C", "U+1D79", "U+A77F", "U+A781", "U+A783",
    "U+A785", "U+A787", "U+A78C", "U+0265", "U+A791", "U+A793", "U+A797",
    "U+A799", "U+A79B", "U+A79D", "U+A79F", "U+A7A1", "U+A7A3", "U+A7A5",
    "U+A7A7", "U+A7A9", "U+0266", "U+025C", "U+0261", "U+026C", "U+026A",
    "U+029E", "U+0287", "U+029D", "U+AB53", "U+A7B5", "U+A7B7", "U+A7B9",
    "U+A7BB", "U+A7BD", "U+A7BF", "U+A7C1", "U+A7C3", "U+A794", "U+0282",
    "U+1D8E", "U+A7C8", "U+A7CA", "U+0264", "U+A7CD", "U+A7CF", "U+A7D1",
    "U+A7D3", "U+A7D5", "U+A7D7", "U+A7D9", "U+A7DB", "U+019B", "U+A7F6",
    "U+FF41", "U+FF42", "U+FF43", "U+FF44", "U+FF45", "U+FF46", "U+FF47",
    "U+FF48", "U+FF49", "U+FF4A", "U+FF4B", "U+FF4C", "U+FF4D", "U+FF4E",
    "U+FF4F", "U+FF50", "U+FF51", "U+FF52", "U+FF53", "U+FF54", "U+FF55",
    "U+FF56", "U+FF57", "U+FF58", "U+FF59", "U+FF5A">>

UPPER_PAIRS ==
  <<<<"U+D801","U+DC00">>, <<"U+D801","U+DC01">>, <<"U+D801","U+DC02">>,
    <<"U+D801","U+DC03">>, <<"U+D801","U+DC04">>, <<"U+D801","U+DC05">>,
    <<"U+D801","U+DC06">>, <<"U+D801","U+DC07">>, <<"U+D801","U+DC08">>,
    <<"U+D801","U+DC09">>, <<"U+D801","U+DC0A">>, <<"U+D801","U+DC0B">>,
    <<"U+D801","U+DC0C">>, <<"U+D801","U+DC0D">>, <<"U+D801","U+DC0E">>,
    <<"U+D801","U+DC0F">>, <<"U+D801","U+DC10">>, <<"U+D801","U+DC11">>,
    <<"U+D801","U+DC12">>, <<"U+D801","U+DC13">>, <<"U+D801","U+DC14">>,
    <<"U+D801","U+DC15">>, <<"U+D801","U+DC16">>, <<"U+D801","U+DC17">>,
    <<"U+D801","U+DC18">>, <<"U+D801","U+DC19">>, <<"U+D801","U+DC1A">>,
    <<"U+D801","U+DC1B">>, <<"U+D801","U+DC1C">>, <<"U+D801","U+DC1D">>,
    <<"U+D801","U+DC1E">>, <<"U+D801","U+DC1F">>, <<"U+D801","U+DC20">>,
    <<"U+D801","U+DC21">>, <<"U+D801","U+DC22">>, <<"U+D801","U+DC23">>,
    <<"U+D801","U+DC24">>, <<"U+D801","U+DC25">>, <<"U+D801","U+DC26">>,
    <<"U+D801","U+DC27">>, <<"U+D801","U+DCB0">>, <<"U+D801","U+DCB1">>,
    <<"U+D801","U+DCB2">>, <<"U+D801","U+DCB3">>, <<"U+D801","U+DCB4">>,
    <<"U+D801","U+DCB5">>, <<"U+D801","U+DCB6">>, <<"U+D801","U+DCB7">>,
    <<"U+D801","U+DCB8">>, <<"U+D801","U+DCB9">>, <<"U+D801","U+DCBA">>,
    <<"U+D801","U+DCBB">>, <<"U+D801","U+DCBC">>, <<"U+D801","U+DCBD">>,
    <<"U+D801","U+DCBE">>, <<"U+D801","U+DCBF">>, <<"U+D801","U+DCC0">>,
    <<"U+D801","U+DCC1">>, <<"U+D801","U+DCC2">>, <<"U+D801","U+DCC3">>,
    <<"U+D801","U+DCC4">>, <<"U+D801","U+DCC5">>, <<"U+D801","U+DCC6">>,
    <<"U+D801","U+DCC7">>, <<"U+D801","U+DCC8">>, <<"U+D801","U+DCC9">>,
    <<"U+D801","U+DCCA">>, <<"U+D801","U+DCCB">>, <<"U+D801","U+DCCC">>,
    <<"U+D801","U+DCCD">>, <<"U+D801","U+DCCE">>, <<"U+D801","U+DCCF">>,
    <<"U+D801","U+DCD0">>, <<"U+D801","U+DCD1">>, <<"U+D801","U+DCD2">>,
    <<"U+D801","U+DCD3">>, <<"U+D801","U+DD70">>, <<"U+D801","U+DD71">>,
    <<"U+D801","U+DD72">>, <<"U+D801","U+DD73">>, <<"U+D801","U+DD74">>,
    <<"U+D801","U+DD75">>, <<"U+D801","U+DD76">>, <<"U+D801","U+DD77">>,
    <<"U+D801","U+DD78">>, <<"U+D801","U+DD79">>, <<"U+D801","U+DD7A">>,
    <<"U+D801","U+DD7C">>, <<"U+D801","U+DD7D">>, <<"U+D801","U+DD7E">>,
    <<"U+D801","U+DD7F">>, <<"U+D801","U+DD80">>, <<"U+D801","U+DD81">>,
    <<"U+D801","U+DD82">>, <<"U+D801","U+DD83">>, <<"U+D801","U+DD84">>,
    <<"U+D801","U+DD85">>, <<"U+D801","U+DD86">>, <<"U+D801","U+DD87">>,
    <<"U+D801","U+DD88">>, <<"U+D801","U+DD89">>, <<"U+D801","U+DD8A">>,
    <<"U+D801","U+DD8C">>, <<"U+D801","U+DD8D">>, <<"U+D801","U+DD8E">>,
    <<"U+D801","U+DD8F">>, <<"U+D801","U+DD90">>, <<"U+D801","U+DD91">>,
    <<"U+D801","U+DD92">>, <<"U+D801","U+DD94">>, <<"U+D801","U+DD95">>,
    <<"U+D803","U+DC80">>, <<"U+D803","U+DC81">>, <<"U+D803","U+DC82">>,
    <<"U+D803","U+DC83">>, <<"U+D803","U+DC84">>, <<"U+D803","U+DC85">>,
    <<"U+D803","U+DC86">>, <<"U+D803","U+DC87">>, <<"U+D803","U+DC88">>,
    <<"U+D803","U+DC89">>, <<"U+D803","U+DC8A">>, <<"U+D803","U+DC8B">>,
    <<"U+D803","U+DC8C">>, <<"U+D803","U+DC8D">>, <<"U+D803","U+DC8E">>,
    <<"U+D803","U+DC8F">>, <<"U+D803","U+DC90">>, <<"U+D803","U+DC91">>,
    <<"U+D803","U+DC92">>, <<"U+D803","U+DC93">>, <<"U+D803","U+DC94">>,
    <<"U+D803","U+DC95">>, <<"U+D803","U+DC96">>, <<"U+D803","U+DC97">>,
    <<"U+D803","U+DC98">>, <<"U+D803","U+DC99">>, <<"U+D803","U+DC9A">>,
    <<"U+D803","U+DC9B">>, <<"U+D803","U+DC9C">>, <<"U+D803","U+DC9D">>,
    <<"U+D803","U+DC9E">>, <<"U+D803","U+DC9F">>, <<"U+D803","U+DCA0">>,
    <<"U+D803","U+DCA1">>, <<"U+D803","U+DCA2">>, <<"U+D803","U+DCA3">>,
    <<"U+D803","U+DCA4">>, <<"U+D803","U+DCA5">>, <<"U+D803","U+DCA6">>,
    <<"U+D803","U+DCA7">>, <<"U+D803","U+DCA8">>, <<"U+D803","U+DCA9">>,
    <<"U+D803","U+DCAA">>, <<"U+D803","U+DCAB">>, <<"U+D803","U+DCAC">>,
    <<"U+D803","U+DCAD">>, <<"U+D803","U+DCAE">>, <<"U+D803","U+DCAF">>,
    <<"U+D803","U+DCB0">>, <<"U+D803","U+DCB1">>, <<"U+D803","U+DCB2">>,
    <<"U+D803","U+DD50">>, <<"U+D803","U+DD51">>, <<"U+D803","U+DD52">>,
    <<"U+D803","U+DD53">>, <<"U+D803","U+DD54">>, <<"U+D803","U+DD55">>,
    <<"U+D803","U+DD56">>, <<"U+D803","U+DD57">>, <<"U+D803","U+DD58">>,
    <<"U+D803","U+DD59">>, <<"U+D803","U+DD5A">>, <<"U+D803","U+DD5B">>,
    <<"U+D803","U+DD5C">>, <<"U+D803","U+DD5D">>, <<"U+D803","U+DD5E">>,
    <<"U+D803","U+DD5F">>, <<"U+D803","U+DD60">>, <<"U+D803","U+DD61">>,
    <<"U+D803","U+DD62">>, <<"U+D803","U+DD63">>, <<"U+D803","U+DD64">>,
    <<"U+D803","U+DD65">>, <<"U+D806","U+DCA0">>, <<"U+D806","U+DCA1">>,
    <<"U+D806","U+DCA2">>, <<"U+D806","U+DCA3">>, <<"U+D806","U+DCA4">>,
    <<"U+D806","U+DCA5">>, <<"U+D806","U+DCA6">>, <<"U+D806","U+DCA7">>,
    <<"U+D806","U+DCA8">>, <<"U+D806","U+DCA9">>, <<"U+D806","U+DCAA">>,
    <<"U+D806","U+DCAB">>, <<"U+D806","U+DCAC">>, <<"U+D806","U+DCAD">>,
    <<"U+D806","U+DCAE">>, <<"U+D806","U+DCAF">>, <<"U+D806","U+DCB0">>,
    <<"U+D806","U+DCB1">>, <<"U+D806","U+DCB2">>, <<"U+D806","U+DCB3">>,
    <<"U+D806","U+DCB4">>, <<"U+D806","U+DCB5">>, <<"U+D806","U+DCB6">>,
    <<"U+D806","U+DCB7">>, <<"U+D806","U+DCB8">>, <<"U+D806","U+DCB9">>,
    <<"U+D806","U+DCBA">>, <<"U+D806","U+DCBB">>, <<"U+D806","U+DCBC">>,
    <<"U+D806","U+DCBD">>, <<"U+D806","U+DCBE">>, <<"U+D806","U+DCBF">>,
    <<"U+D81B","U+DE40">>, <<"U+D81B","U+DE41">>, <<"U+D81B","U+DE42">>,
    <<"U+D81B","U+DE43">>, <<"U+D81B","U+DE44">>, <<"U+D81B","U+DE45">>,
    <<"U+D81B","U+DE46">>, <<"U+D81B","U+DE47">>, <<"U+D81B","U+DE48">>,
    <<"U+D81B","U+DE49">>, <<"U+D81B","U+DE4A">>, <<"U+D81B","U+DE4B">>,
    <<"U+D81B","U+DE4C">>, <<"U+D81B","U+DE4D">>, <<"U+D81B","U+DE4E">>,
    <<"U+D81B","U+DE4F">>, <<"U+D81B","U+DE50">>, <<"U+D81B","U+DE51">>,
    <<"U+D81B","U+DE52">>, <<"U+D81B","U+DE53">>, <<"U+D81B","U+DE54">>,
    <<"U+D81B","U+DE55">>, <<"U+D81B","U+DE56">>, <<"U+D81B","U+DE57">>,
    <<"U+D81B","U+DE58">>, <<"U+D81B","U+DE59">>, <<"U+D81B","U+DE5A">>,
    <<"U+D81B","U+DE5B">>, <<"U+D81B","U+DE5C">>, <<"U+D81B","U+DE5D">>,
    <<"U+D81B","U+DE5E">>, <<"U+D81B","U+DE5F">>, <<"U+D81B","U+DEA0">>,
    <<"U+D81B","U+DEA1">>, <<"U+D81B","U+DEA2">>, <<"U+D81B","U+DEA3">>,
    <<"U+D81B","U+DEA4">>, <<"U+D81B","U+DEA5">>, <<"U+D81B","U+DEA6">>,
    <<"U+D81B","U+DEA7">>, <<"U+D81B","U+DEA8">>, <<"U+D81B","U+DEA9">>,
    <<"U+D81B","U+DEAA">>, <<"U+D81B","U+DEAB">>, <<"U+D81B","U+DEAC">>,
    <<"U+D81B","U+DEAD">>, <<"U+D81B","U+DEAE">>, <<"U+D81B","U+DEAF">>,
    <<"U+D81B","U+DEB0">>, <<"U+D81B","U+DEB1">>, <<"U+D81B","U+DEB2">>,
    <<"U+D81B","U+DEB3">>, <<"U+D81B","U+DEB4">>, <<"U+D81B","U+DEB5">>,
    <<"U+D81B","U+DEB6">>, <<"U+D81B","U+DEB7">>, <<"U+D81B","U+DEB8">>,
    <<"U+D83A","U+DD00">>, <<"U+D83A","U+DD01">>, <<"U+D83A","U+DD02">>,
    <<"U+D83A","U+DD03">>, <<"U+D83A","U+DD04">>, <<"U+D83A","U+DD05">>,
    <<"U+D83A","U+DD06">>, <<"U+D83A","U+DD07">>, <<"U+D83A","U+DD08">>,
    <<"U+D83A","U+DD09">>, <<"U+D83A","U+DD0A">>, <<"U+D83A","U+DD0B">>,
    <<"U+D83A","U+DD0C">>, <<"U+D83A","U+DD0D">>, <<"U+D83A","U+DD0E">>,
    <<"U+D83A","U+DD0F">>, <<"U+D83A","U+DD10">>, <<"U+D83A","U+DD11">>,
    <<"U+D83A","U+DD12">>, <<"U+D83A","U+DD13">>, <<"U+D83A","U+DD14">>,
    <<"U+D83A","U+DD15">>, <<"U+D83A","U+DD16">>, <<"U+D83A","U+DD17">>,
    <<"U+D83A","U+DD18">>, <<"U+D83A","U+DD19">>, <<"U+D83A","U+DD1A">>,
    <<"U+D83A","U+DD1B">>, <<"U+D83A","U+DD1C">>, <<"U+D83A","U+DD1D">>,
    <<"U+D83A","U+DD1E">>, <<"U+D83A","U+DD1F">>, <<"U+D83A","U+DD20">>,
    <<"U+D83A","U+DD21">>>>

LOWER_PAIRS ==
  <<<<"U+D801","U+DC28">>, <<"U+D801","U+DC29">>, <<"U+D801","U+DC2A">>,
    <<"U+D801","U+DC2B">>, <<"U+D801","U+DC2C">>, <<"U+D801","U+DC2D">>,
    <<"U+D801","U+DC2E">>, <<"U+D801","U+DC2F">>, <<"U+D801","U+DC30">>,
    <<"U+D801","U+DC31">>, <<"U+D801","U+DC32">>, <<"U+D801","U+DC33">>,
    <<"U+D801","U+DC34">>, <<"U+D801","U+DC35">>, <<"U+D801","U+DC36">>,
    <<"U+D801","U+DC37">>, <<"U+D801","U+DC38">>, <<"U+D801","U+DC39">>,
    <<"U+D801","U+DC3A">>, <<"U+D801","U+DC3B">>, <<"U+D801","U+DC3C">>,
    <<"U+D801","U+DC3D">>, <<"U+D801","U+DC3E">>, <<"U+D801","U+DC3F">>,
    <<"U+D801","U+DC40">>, <<"U+D801","U+DC41">>, <<"U+D801","U+DC42">>,
    <<"U+D801","U+DC43">>, <<"U+D801","U+DC44">>, <<"U+D801","U+DC45">>,
    <<"U+D801","U+DC46">>, <<"U+D801","U+DC47">>, <<"U+D801","U+DC48">>,
    <<"U+D801","U+DC49">>, <<"U+D801","U+DC4A">>, <<"U+D801","U+DC4B">>,
    <<"U+D801","U+DC4C">>, <<"U+D801","U+DC4D">>, <<"U+D801","U+DC4E">>,
    <<"U+D801","U+DC4F">>, <<"U+D801","U+DCD8">>, <<"U+D801","U+DCD9">>,
    <<"U+D801","U+DCDA">>, <<"U+D801","U+DCDB">>, <<"U+D801","U+DCDC">>,
    <<"U+D801","U+DCDD">>, <<"U+D801","U+DCDE">>, <<"U+D801","U+DCDF">>,
    <<"U+D801","U+DCE0">>, <<"U+D801","U+DCE1">>, <<"U+D801","U+DCE2">>,
    <<"U+D801","U+DCE3">>, <<"U+D801","U+DCE4">>, <<"U+D801","U+DCE5">>,
    <<"U+D801","U+DCE6">>, <<"U+D801","U+DCE7">>, <<"U+D801","U+DCE8">>,
    <<"U+D801","U+DCE9">>, <<"U+D801","U+DCEA">>, <<"U+D801","U+DCEB">>,
    <<"U+D801","U+DCEC">>, <<"U+D801","U+DCED">>, <<"U+D801","U+DCEE">>,
    <<"U+D801","U+DCEF">>, <<"U+D801","U+DCF0">>, <<"U+D801","U+DCF1">>,
    <<"U+D801","U+DCF2">>, <<"U+D801","U+DCF3">>, <<"U+D801","U+DCF4">>,
    <<"U+D801","U+DCF5">>, <<"U+D801","U+DCF6">>, <<"U+D801","U+DCF7">>,
    <<"U+D801","U+DCF8">>, <<"U+D801","U+DCF9">>, <<"U+D801","U+DCFA">>,
    <<"U+D801","U+DCFB">>, <<"U+D801","U+DD97">>, <<"U+D801","U+DD98">>,
    <<"U+D801","U+DD99">>, <<"U+D801","U+DD9A">>, <<"U+D801","U+DD9B">>,
    <<"U+D801","U+DD9C">>, <<"U+D801","U+DD9D">>, <<"U+D801","U+DD9E">>,
    <<"U+D801","U+DD9F">>, <<"U+D801","U+DDA0">>, <<"U+D801","U+DDA1">>,
    <<"U+D801","U+DDA3">>, <<"U+D801","U+DDA4">>, <<"U+D801","U+DDA5">>,
    <<"U+D801","U+DDA6">>, <<"U+D801","U+DDA7">>, <<"U+D801","U+DDA8">>,
    <<"U+D801","U+DDA9">>, <<"U+D801","U+DDAA">>, <<"U+D801","U+DDAB">>,
    <<"U+D801","U+DDAC">>, <<"U+D801","U+DDAD">>, <<"U+D801","U+DDAE">>,
    <<"U+D801","U+DDAF">>, <<"U+D801","U+DDB0">>, <<"U+D801","U+DDB1">>,
    <<"U+D801","U+DDB3">>, <<"U+D801","U+DDB4">>, <<"U+D801","U+DDB5">>,
    <<"U+D801","U+DDB6">>, <<"U+D801","U+DDB7">>, <<"U+D801","U+DDB8">>,
    <<"U+D801","U+DDB9">>, <<"U+D801","U+DDBB">>, <<"U+D801","U+DDBC">>,
    <<"U+D803","U+DCC0">>, <<"U+D803","U+DCC1">>, <<"U+D803","U+DCC2">>,
    <<"U+D803","U+DCC3">>, <<"U+D803","U+DCC4">>, <<"U+D803","U+DCC5">>,
    <<"U+D803","U+DCC6">>, <<"U+D803","U+DCC7">>, <<"U+D803","U+DCC8">>,
    <<"U+D803","U+DCC9">>, <<"U+D803","U+DCCA">>, <<"U+D803","U+DCCB">>,
    <<"U+D803","U+DCCC">>, <<"U+D803","U+DCCD">>, <<"U+D803","U+DCCE">>,
    <<"U+D803","U+DCCF">>, <<"U+D803","U+DCD0">>, <<"U+D803","U+DCD1">>,
    <<"U+D803","U+DCD2">>, <<"U+D803","U+DCD3">>, <<"U+D803","U+DCD4">>,
    <<"U+D803","U+DCD5">>, <<"U+D803","U+DCD6">>, <<"U+D803","U+DCD7">>,
    <<"U+D803","U+DCD8">>, <<"U+D803","U+DCD9">>, <<"U+D803","U+DCDA">>,
    <<"U+D803","U+DCDB">>, <<"U+D803","U+DCDC">>, <<"U+D803","U+DCDD">>,
    <<"U+D803","U+DCDE">>, <<"U+D803","U+DCDF">>, <<"U+D803","U+DCE0">>,
    <<"U+D803","U+DCE1">>, <<"U+D803","U+DCE2">>, <<"U+D803","U+DCE3">>,
    <<"U+D803","U+DCE4">>, <<"U+D803","U+DCE5">>, <<"U+D803","U+DCE6">>,
    <<"U+D803","U+DCE7">>, <<"U+D803","U+DCE8">>, <<"U+D803","U+DCE9">>,
    <<"U+D803","U+DCEA">>, <<"U+D803","U+DCEB">>, <<"U+D803","U+DCEC">>,
    <<"U+D803","U+DCED">>, <<"U+D803","U+DCEE">>, <<"U+D803","U+DCEF">>,
    <<"U+D803","U+DCF0">>, <<"U+D803","U+DCF1">>, <<"U+D803","U+DCF2">>,
    <<"U+D803","U+DD70">>, <<"U+D803","U+DD71">>, <<"U+D803","U+DD72">>,
    <<"U+D803","U+DD73">>, <<"U+D803","U+DD74">>, <<"U+D803","U+DD75">>,
    <<"U+D803","U+DD76">>, <<"U+D803","U+DD77">>, <<"U+D803","U+DD78">>,
    <<"U+D803","U+DD79">>, <<"U+D803","U+DD7A">>, <<"U+D803","U+DD7B">>,
    <<"U+D803","U+DD7C">>, <<"U+D803","U+DD7D">>, <<"U+D803","U+DD7E">>,
    <<"U+D803","U+DD7F">>, <<"U+D803","U+DD80">>, <<"U+D803","U+DD81">>,
    <<"U+D803","U+DD82">>, <<"U+D803","U+DD83">>, <<"U+D803","U+DD84">>,
    <<"U+D803","U+DD85">>, <<"U+D806","U+DCC0">>, <<"U+D806","U+DCC1">>,
    <<"U+D806","U+DCC2">>, <<"U+D806","U+DCC3">>, <<"U+D806","U+DCC4">>,
    <<"U+D806","U+DCC5">>, <<"U+D806","U+DCC6">>, <<"U+D806","U+DCC7">>,
    <<"U+D806","U+DCC8">>, <<"U+D806","U+DCC9">>, <<"U+D806","U+DCCA">>,
    <<"U+D806","U+DCCB">>, <<"U+D806","U+DCCC">>, <<"U+D806","U+DCCD">>,
    <<"U+D806","U+DCCE">>, <<"U+D806","U+DCCF">>, <<"U+D806","U+DCD0">>,
    <<"U+D806","U+DCD1">>, <<"U+D806","U+DCD2">>, <<"U+D806","U+DCD3">>,
    <<"U+D806","U+DCD4">>, <<"U+D806","U+DCD5">>, <<"U+D806","U+DCD6">>,
    <<"U+D806","U+DCD7">>, <<"U+D806","U+DCD8">>, <<"U+D806","U+DCD9">>,
    <<"U+D806","U+DCDA">>, <<"U+D806","U+DCDB">>, <<"U+D806","U+DCDC">>,
    <<"U+D806","U+DCDD">>, <<"U+D806","U+DCDE">>, <<"U+D806","U+DCDF">>,
    <<"U+D81B","U+DE60">>, <<"U+D81B","U+DE61">>, <<"U+D81B","U+DE62">>,
    <<"U+D81B","U+DE63">>, <<"U+D81B","U+DE64">>, <<"U+D81B","U+DE65">>,
    <<"U+D81B","U+DE66">>, <<"U+D81B","U+DE67">>, <<"U+D81B","U+DE68">>,
    <<"U+D81B","U+DE69">>, <<"U+D81B","U+DE6A">>, <<"U+D81B","U+DE6B">>,
    <<"U+D81B","U+DE6C">>, <<"U+D81B","U+DE6D">>, <<"U+D81B","U+DE6E">>,
    <<"U+D81B","U+DE6F">>, <<"U+D81B","U+DE70">>, <<"U+D81B","U+DE71">>,
    <<"U+D81B","U+DE72">>, <<"U+D81B","U+DE73">>, <<"U+D81B","U+DE74">>,
    <<"U+D81B","U+DE75">>, <<"U+D81B","U+DE76">>, <<"U+D81B","U+DE77">>,
    <<"U+D81B","U+DE78">>, <<"U+D81B","U+DE79">>, <<"U+D81B","U+DE7A">>,
    <<"U+D81B","U+DE7B">>, <<"U+D81B","U+DE7C">>, <<"U+D81B","U+DE7D">>,
    <<"U+D81B","U+DE7E">>, <<"U+D81B","U+DE7F">>, <<"U+D81B","U+DEBB">>,
    <<"U+D81B","U+DEBC">>, <<"U+D81B","U+DEBD">>, <<"U+D81B","U+DEBE">>,
    <<"U+D81B","U+DEBF">>, <<"U+D81B","U+DEC0">>, <<"U+D81B","U+DEC1">>,
    <<"U+D81B","U+DEC2">>, <<"U+D81B","U+DEC3">>, <<"U+D81B","U+DEC4">>,
    <<"U+D81B","U+DEC5">>, <<"U+D81B","U+DEC6">>, <<"U+D81B","U+DEC7">>,
    <<"U+D81B","U+DEC8">>, <<"U+D81B","U+DEC9">>, <<"U+D81B","U+DECA">>,
    <<"U+D81B","U+DECB">>, <<"U+D81B","U+DECC">>, <<"U+D81B","U+DECD">>,
    <<"U+D81B","U+DECE">>, <<"U+D81B","U+DECF">>, <<"U+D81B","U+DED0">>,
    <<"U+D81B","U+DED1">>, <<"U+D81B","U+DED2">>, <<"U+D81B","U+DED3">>,
    <<"U+D83A","U+DD22">>, <<"U+D83A","U+DD23">>, <<"U+D83A","U+DD24">>,
    <<"U+D83A","U+DD25">>, <<"U+D83A","U+DD26">>, <<"U+D83A","U+DD27">>,
    <<"U+D83A","U+DD28">>, <<"U+D83A","U+DD29">>, <<"U+D83A","U+DD2A">>,
    <<"U+D83A","U+DD2B">>, <<"U+D83A","U+DD2C">>, <<"U+D83A","U+DD2D">>,
    <<"U+D83A","U+DD2E">>, <<"U+D83A","U+DD2F">>, <<"U+D83A","U+DD30">>,
    <<"U+D83A","U+DD31">>, <<"U+D83A","U+DD32">>, <<"U+D83A","U+DD33">>,
    <<"U+D83A","U+DD34">>, <<"U+D83A","U+DD35">>, <<"U+D83A","U+DD36">>,
    <<"U+D83A","U+DD37">>, <<"U+D83A","U+DD38">>, <<"U+D83A","U+DD39">>,
    <<"U+D83A","U+DD3A">>, <<"U+D83A","U+DD3B">>, <<"U+D83A","U+DD3C">>,
    <<"U+D83A","U+DD3D">>, <<"U+D83A","U+DD3E">>, <<"U+D83A","U+DD3F">>,
    <<"U+D83A","U+DD40">>, <<"U+D83A","U+DD41">>, <<"U+D83A","U+DD42">>,
    <<"U+D83A","U+DD43">>>>

CASED ==
  {"A", "B", "C", "D", "E", "F", "G", "H", "I", "J", "K", "L", "M", "N",
    "O", "P", "Q", "R", "S", "T", "U", "V", "W", "X", "Y", "Z", "a", "b",
    "c", "d", "e", "f", "g", "h", "i", "j", "k", "l", "m", "n", "o", "p",
    "q", "r", "s", "t", "u", "v", "w", "x", "y", "z", "U+00AA", "U+00B5",
    "U+00BA", "U+00C0", "U+00C1", "U+00C2", "U+00C3", "U+00C4", "U+00C5",
    "U+00C6", "U+00C7", "U+00C8", "U+00C9", "U+00CA", "U+00CB", "U+00CC",
    "U+00CD", "U+00CE", "U+00CF", "U+00D0", "U+00D1", "U+00D2", "U+00D3",
    "U+00D4", "U+00D5", "U+00D6", "U+00D8", "U+00D9", "U+00DA", "U+00DB",
    "U+00DC", "U+00DD", "U+00DE", "U+00DF", "U+00E0", "U+00E1", "U+00E2",
    "U+00E3", "U+00E4", "U+00E5", "U+00E6", "U+00E7", "U+00E8", "U+00E9",
    "U+00EA", "U+00EB", "U+00EC", "U+00ED", "U+00EE", "U+00EF", "U+00F0",
    "U+00F1", "U+00F2", "U+00F3", "U+00F4", "U+00F5", "U+00F6", "U+00F8",
    "U+00F9", "U+00FA", "U+00FB", "U+00FC", "U+00FD", "U+00FE", "U+00FF",
    "U+0100", "U+0101", "U+0102", "U+0103", "U+0104", "U+0105", "U+0106",
    "U+0107", "U+0108", "U+0109", "U+010A", "U+010B", "U+010C", "U+010D",
    "U+010E", "U+010F", "U+0110", "U+0111", "U+0112", "U+0113", "U+0114",
    "U+0115", "U+0116", "U+0117", "U+0118", "U+0119", "U+011A", "U+011B",
    "U+011C", "U+011D", "U+011E", "U+011F", "U+0120", "U+0121", "U+0122",
    "U+0123", "U+0124", "U+0125", "U+0126", "U+0127", "U+0128", "U+0129",
    "U+012A", "U+012B", "U+012C", "U+012D", "U+012E", "U+012F", "U+0130",
    "U+0131", "U+0132", "U+0133", "U+0134", "U+0135", "U+0136", "U+0137",
    "U+0138", "U+0139", "U+013A", "U+013B", "U+013C", "U+013D", "U+013E",
    "U+013F", "U+0140", "U+0141", "U+0142", "U+0143", "U+0144", "U+0145",
    "U+0146", "U+0147", "U+0148", "U+0149", "U+014A", "U+014B", "U+014C",
    "U+014D", "U+014E", "U+014F", "U+0150", "U+0151", "U+0152", "U+0153",
    "U+0154", "U+0155", "U+0156", "U+0157", "U+0158", "U+0159", "U+015A",
    "U+015B", "U+015C", "U+015D", "U+015E", "U+015F", "U+0160", "U+0161",
    "U+0162", "U+0163", "U+0164", "U+0165", "U+0166", "U+0167", "U+0168",
    "U+0169", "U+016A", "U+016B", "U+016C", "U+016D", "U+016E", "U+016F",
    "U+0170", "U+0171", "U+0172", "U+0173", "U+0174", "U+0175", "U+0176",
    "U+0177", "U+0178", "U+0179", "U+017A", "U+017B", "U+017C", "U+017D",
    "U+017E", "U+017F", "U+0180", "U+0181", "U+0182", "U+0183", "U+0184",
    "U+0185", "U+0186", "U+0187", "U+0188", "U+0189", "U+018A", "U+018B",
    "U+018C", "U+018D", "U+018E", "U+018F", "U+0190", "U+0191", "U+0192",
    "U+0193", "U+0194", "U+0195", "U+0196", "U+0197", "U+0198", "U+0199",
    "U+019A", "U+019B", "U+019C", "U+019D", "U+019E", "U+019F", "U+01A0",
    "U+01A1", "U+01A2", "U+01A3", "U+01A4", "U+01A5", "U+01A6", "U+01A7",
    "U+01A8", "U+01A9", "U+01AA", "U+01AB", "U+01AC", "U+01AD", "U+01AE",
    "U+01AF", "U+01B0", "U+01B1", "U+01B2", "U+01B3", "U+01B4", "U+01B5",
    "U+01B6", "U+01B7", "U+01B8", "U+01B9", "U+01BA", "U+01BC", "U+01BD",
    "U+01BE", "U+01BF", "U+01C4", "U+01C5", "U+01C6", "U+01C7", "U+01C8",
    "U+01C9", "U+01CA", "U+01CB", "U+01CC", "U+01CD", "U+01CE", "U+01CF",
    "U+01D0", "U+01D1", "U+01D2", "U+01D3", "U+01D4", "U+01D5", "U+01D6",
    "U+01D7", "U+01D8", "U+01D9", "U+01DA", "U+01DB", "U+01DC", "U+01DD",
    "U+01DE", "U+01DF", "U+01E0", "U+01E1", "U+01E2", "U+01E3", "U+01E4",
    "U+01E5", "U+01E6", "U+01E7", "U+01E8", "U+01E9", "U+01EA", "U+01EB",
    "U+01EC", "U+01ED", "U+01EE", "U+01EF", "U+01F0", "U+01F1", "U+01F2",
    "U+01F3", "U+01F4", "U+01F5", "U+01F6", "U+01F7", "U+01F8", "U+01F9",
    "U+01FA", "U+01FB", "U+01FC", "U+01FD", "U+01FE", "U+01FF", "U+0200",
    "U+0201", "U+0202", "U+0203", "U+0204", "U+0205", "U+0206", "U+0207",
    "U+0208", "U+0209", "U+020A", "U+020B", "U+020C", "U+020D", "U+020E",
    "U+020F", "U+0210", "U+0211", "U+0212", "U+0213", "U+0214", "U+0215",
    "U+0216", "U+0217", "U+0218", "U+0219", "U+021A", "U+021B", "U+021C",
    "U+021D", "U+021E", "U+021F", "U+0220", "U+0221", "U+0222", "U+0223",
    "U+0224", "U+0225", "U+0226", "U+0227", "U+0228", "U+0229", "U+022A",
    "U+022B", "U+022C", "U+022D", "U+022E", "U+022F", "U+0230", "U+0231",
    "U+0232", "U+0233", "U+0234", "U+0235", "U+0236", "U+0237", "U+0238",
    "U+0239", "U+023A", "U+023B", "U+023C", "U+023D", "U+023E", "U+023F",
    "U+0240", "U+0241", "U+0242", "U+0243", "U+0244", "U+0245", "U+0246",
    "U+0247", "U+0248", "U+0249", "U+024A", "U+024B", "U+024C", "U+024D",
    "U+024E", "U+024F", "U+0250", "U+0251", "U+0252", "U+0253", "U+0254",
    "U+0255", "U+0256", "U+0257", "U+0258", "U+0259", "U+025A", "U+025B",
    "U+025C", "U+025D", "U+025E", "U+025F", "U+0260", "U+0261", "U+0262",
    "U+0263", "U+0264", "U+0265", "U+0266", "U+0267", "U+0268", "U+0269",
    "U+026A", "U+026B", "U+026C", "U+026D", "U+026E", "U+026F", "U+0270",
    "U+0271", "U+0272", "U+0273", "U+0274", "U+0275", "U+0276", "U+0277",
    "U+0278", "U+0279", "U+027A", "U+027B", "U+027C", "U+027D", "U+027E",
    "U+027F", "U+0280", "U+0281", "U+0282", "U+0283", "U+0284", "U+0285",
    "U+0286", "U+0287", "U+0288", "U+0289", "U+028A", "U+028B", "U+028C",
    "U+028D", "U+028E", "U+028F", "U+0290", "U+0291", "U+0292", "U+0293",
    "U+0296", "U+0297", "U+0298", "U+0299", "U+029A", "U+029B", "U+029C",
    "U+029D", "U+029E", "U+029F", "U+02A0", "U+02A1", "U+02A2", "U+02A3",
    "U+02A4", "U+02A5", "U+02A6", "U+02A7", "U+02A8", "U+02A9", "U+02AA",
    "U+02AB", "U+02AC", "U+02AD", "U+02AE", "U+02AF", "U+0370", "U+0371",
    "U+0372", "U+0373", "U+0376", "U+0377", "U+037B", "U+037C", "U+037D",
    "U+037F", "U+0386", "U+0388", "U+0389", "U+038A", "U+038C", "U+038E",
    "U+038F", "U+0390", "U+0391", "U+0392", "U+0393", "U+0394", "U+0395",
    "U+0396", "U+0397", "U+0398", "U+0399", "U+039A", "U+039B", "U+039C",
    "U+039D", "U+039E", "U+039F", "U+03A0", "U+03A1", "U+03A3", "U+03A4",
    "U+03A5", "U+03A6", "U+03A7", "U+03A8", "U+03A9", "U+03AA", "U+03AB",
    "U+03AC", "U+03AD", "U+03AE", "U+03AF", "U+03B0", "U+03B1", "U+03B2",
    "U+03B3", "U+03B4", "U+03B5", "U+03B6", "U+03B7", "U+03B8", "U+03B9",
    "U+03BA", "U+03BB", "U+03BC", "U+03BD", "U+03BE", "U+03BF", "U+03C0",
    "U+03C1", "U+03C2", "U+03C3", "U+03C4", "U+03C5", "U+03C6", "U+03C7",
    "U+03C8", "U+03C9", "U+03CA", "U+03CB", "U+03CC", "U+03CD", "U+03CE",
    "U+03CF", "U+03D0", "U+03D1", "U+03D2", "U+03D3", "U+03D4", "U+03D5",
    "U+03D6", "U+03D7", "U+03D8", "U+03D9", "U+03DA", "U+03DB", "U+03DC",
    "U+03DD", "U+03DE", "U+03DF", "U+03E0", "U+03E1", "U+03E2", "U+03E3",
    "U+03E4", "U+03E5", "U+03E6", "U+03E7", "U+03E8", "U+03E9", "U+03EA",
    "U+03EB", "U+03EC", "U+03ED", "U+03EE", "U+03EF", "U+03F0", "U+03F1",
    "U+03F2", "U+03F3", "U+03F4", "U+03F5", "U+03F7", "U+03F8", "U+03F9",
    "U+03FA", "U+03FB", "U+03FC", "U+03FD", "U+03FE", "U+03FF", "U+0400",
    "U+0401", "U+0402", "U+0403", "U+0404", "U+0405", "U+0406", "U+0407",
    "U+0408", "U+0409", "U+040A", "U+040B", "U+040C", "U+040D", "U+040E",
    "U+040F", "U+0410", "U+0411", "U+0412", "U+0413", "U+0414", "U+0415",
    "U+0416", "U+0417", "U+0418", "U+0419", "U+041A", "U+041B", "U+041C",
    "U+041D", "U+041E", "U+041F", "U+0420", "U+0421", "U+0422", "U+0423",
    "U+0424", "U+0425", "U+0426", "U+0427", "U+0428", "U+0429", "U+042A",
    "U+042B", "U+042C", "U+042D", "U+042E", "U+042F", "U+0430", "U+0431",
    "U+0432", "U+0433", "U+0434", "U+0435", "U+0436", "U+0437", "U+0438",
    "U+0439", "U+043A", "U+043B", "U+043C", "U+043D", "U+043E", "U+043F",
    "U+0440", "U+0441", "U+0442", "U+0443", "U+0444", "U+0445", "U+0446",
    "U+0447", "U+0448", "U+0449", "U+044A", "U+044B", "U+044C", "U+044D",
    "U+044E", "U+044F", "U+0450", "U+0451", "U+0452", "U+0453", "U+0454",
    "U+0455", "U+0456", "U+0457", "U+0458", "U+0459", "U+045A", "U+045B",
    "U+045C", "U+045D", "U+045E", "U+045F", "U+0460", "U+0461", "U+0462",
    "U+0463", "U+0464", "U+0465", "U+0466", "U+0467", "U+0468", "U+0469",
    "U+046A", "U+046B", "U+046C", "U+046D", "U+046E", "U+046F", "U+0470",
    "U+0471", "U+0472", "U+0473", "U+0474", "U+0475", "U+0476", "U+0477",
    "U+0478", "U+0479", "U+047A", "U+047B", "U+047C", "U+047D", "U+047E",
    "U+047F", "U+0480", "U+0481", "U+048A", "U+048B", "U+048C", "U+048D",
    "U+048E", "U+048F", "U+0490", "U+0491", "U+0492", "U+0493", "U+0494",
    "U+0495", "U+0496", "U+0497", "U+0498", "U+0499", "U+049A", "U+049B",
    "U+049C", "U+049D", "U+049E", "U+049F", "U+04A0", "U+04A1", "U+04A2",
    "U+04A3", "U+04A4", "U+04A5", "U+04A6", "U+04A7", "U+04A8", "U+04A9",
    "U+04AA", "U+04AB", "U+04AC", "U+04AD", "U+04AE", "U+04AF", "U+04B0",
    "U+04B1", "U+04B2", "U+04B3", "U+04B4", "U+04B5", "U+04B6", "U+04B7",
    "U+04B8", "U+04B9", "U+04BA", "U+04BB", "U+04BC", "U+04BD", "U+04BE",
    "U+04BF", "U+04C0", "U+04C1", "U+04C2", "U+04C3", "U+04C4", "U+04C5",
    "U+04C6", "U+04C7", "U+04C8", "U+04C9", "U+04CA", "U+04CB", "U+04CC",
    "U+04CD", "U+04CE", "U+04CF", "U+04D0", "U+04D1", "U+04D2", "U+04D3",
    "U+04D4", "U+04D5", "U+04D6", "U+04D7", "U+04D8", "U+04D9", "U+04DA",
    "U+04DB", "U+04DC", "U+04DD", "U+04DE", "U+04DF", "U+04E0", "U+04E1",
    "U+04E2", "U+04E3", "U+04E4", "U+04E5", "U+04E6", "U+04E7", "U+04E8",
    "U+04E9", "U+04EA", "U+04EB", "U+04EC", "U+04ED", "U+04EE", "U+04EF",
    "U+04F0", "U+04F1", "U+04F2", "U+04F3", "U+04F4", "U+04F5", "U+04F6",
    "U+04F7", "U+04F8", "U+04F9", "U+04FA", "U+04FB", "U+04FC", "U+04FD",
    "U+04FE", "U+04FF", "U+0500", "U+0501", "U+0502", "U+0503", "U+0504",
    "U+0505", "U+0506", "U+0507", "U+0508", "U+0509", "U+050A", "U+050B",
    "U+050C", "U+050D", "U+050E", "U+050F", "U+0510", "U+0511", "U+0512",
    "U+0513", "U+0514", "U+0515", "U+0516", "U+0517", "U+0518", "U+0519",
    "U+051A", "U+051B", "U+051C", "U+051D", "U+051E", "U+051F", "U+0520",
    "U+0521", "U+0522", "U+0523", "U+0524", "U+0525", "U+0526", "U+0527",
    "U+0528", "U+0529", "U+052A", "U+052B", "U+052C", "U+052D", "U+052E",
    "U+052F", "U+0531", "U+0532", "U+0533", "U+0534", "U+0535", "U+0536",
    "U+0537", "U+0538", "U+0539", "U+053A", "U+053B", "U+053C", "U+053D",
    "U+053E", "U+053F", "U+0540", "U+0541", "U+0542", "U+0543", "U+0544",
    "U+0545", "U+0546", "U+0547", "U+0548", "U+0549", "U+054A", "U+054B",
    "U+054C", "U+054D", "U+054E", "U+054F", "U+0550", "U+0551", "U+0552",
    "U+0553", "U+0554", "U+0555", "U+0556", "U+0560", "U+0561", "U+0562",
    "U+0563", "U+0564", "U+0565", "U+0566", "U+0567", "U+0568", "U+0569",
    "U+056A", "U+056B", "U+056C", "U+056D", "U+056E", "U+056F", "U+0570",
    "U+0571", "U+0572", "U+0573", "U+0574", "U+0575", "U+0576", "U+0577",
    "U+0578", "U+0579", "U+057A", "U+057B", "U+057C", "U+057D", "U+057E",
    "U+057F", "U+0580", "U+0581", "U+0582", "U+0583", "U+0584", "U+0585",
    "U+0586", "U+0587", "U+0588", "U+10A0", "U+10A1", "U+10A2", "U+10A3",
    "U+10A4", "U+10A5", "U+10A6", "U+10A7", "U+10A8", "U+10A9", "U+10AA",
    "U+10AB", "U+10AC", "U+10AD", "U+10AE", "U+10AF", "U+10B0", "U+10B1",
    "U+10B2", "U+10B3", "U+10B4", "U+10B5", "U+10B6", "U+10B7", "U+10B8",
    "U+10B9", "U+10BA", "U+10BB", "U+10BC", "U+10BD", "U+10BE", "U+10BF",
    "U+10C0", "U+10C1", "U+10C2", "U+10C3", "U+10C4", "U+10C5", "U+10C7",
    "U+10CD", "U+10D0", "U+10D1", "U+10D2", "U+10D3", "U+10D4", "U+10D5",
    "U+10D6", "U+10D7", "U+10D8", "U+10D9", "U+10DA", "U+10DB", "U+10DC",
    "U+10DD", "U+10DE", "U+10DF", "U+10E0", "U+10E1", "U+10E2", "U+10E3",
    "U+10E4", "U+10E5", "U+10E6", "U+10E7", "U+10E8", "U+10E9", "U+10EA",
    "U+10EB", "U+10EC", "U+10ED", "U+10EE", "U+10EF", "U+10F0", "U+10F1",
    "U+10F2", "U+10F3", "U+10F4", "U+10F5", "U+10F6", "U+10F7", "U+10F8",
    "U+10F9", "U+10FA", "U+10FD", "U+10FE", "U+10FF", "U+13A0", "U+13A1",
    "U+13A2", "U+13A3", "U+13A4", "U+13A5", "U+13A6", "U+13A7", "U+13A8",
    "U+13A9", "U+13AA", "U+13AB", "U+13AC", "U+13AD", "U+13AE", "U+13AF",
    "U+13B0", "U+13B1", "U+13B2", "U+13B3", "U+13B4", "U+13B5", "U+13B6",
    "U+13B7", "U+13B8", "U+13B9", "U+13BA", "U+13BB", "U+13BC", "U+13BD",
    "U+13BE", "U+13BF", "U+13C0", "U+13C1", "U+13C2", "U+13C3", "U+13C4",
    "U+13C5", "U+13C6", "U+13C7", "U+13C8", "U+13C9", "U+13CA", "U+13CB",
    "U+13CC", "U+13CD", "U+13CE", "U+13CF", "U+13D0", "U+13D1", "U+13D2",
    "U+13D3", "U+13D4", "U+13D5", "U+13D6", "U+13D7", "U+13D8", "U+13D9",
    "U+13DA", "U+13DB", "U+13DC", "U+13DD", "U+13DE", "U+13DF", "U+13E0",
    "U+13E1", "U+13E2", "U+13E3", "U+13E4", "U+13E5", "U+13E6", "U+13E7",
    "U+13E8", "U+13E9", "U+13EA", "U+13EB", "U+13EC", "U+13ED", "U+13EE",
    "U+13EF", "U+13F0", "U+13F1", "U+13F2", "U+13F3", "U+13F4", "U+13F5",
    "U+13F8", "U+13F9", "U+13FA", "U+13FB", "U+13FC", "U+13FD", "U+1C80",
    "U+1C81", "U+1C82", "U+1C83", "U+1C84", "U+1C85", "U+1C86", "U+1C87",
    "U+1C88", "U+1C89", "U+1C8A", "U+1C90", "U+1C91", "U+1C92", "U+1C93",
    "U+1C94", "U+1C95", "U+1C96", "U+1C97", "U+1C98", "U+1C99", "U+1C9A",
    "U+1C9B", "U+1C9C", "U+1C9D", "U+1C9E", "U+1C9F", "U+1CA0", "U+1CA1",
    "U+1CA2", "U+1CA3", "U+1CA4", "U+1CA5", "U+1CA6", "U+1CA7", "U+1CA8",
    "U+1CA9", "U+1CAA", "U+1CAB", "U+1CAC", "U+1CAD", "U+1CAE", "U+1CAF",
    "U+1CB0", "U+1CB1", "U+1CB2", "U+1CB3", "U+1CB4", "U+1CB5", "U+1CB6",
    "U+1CB7", "U+1CB8", "U+1CB9", "U+1CBA", "U+1CBD", "U+1CBE", "U+1CBF",
    "U+1D00", "U+1D01", "U+1D02", "U+1D03", "U+1D04", "U+1D05", "U+1D06",
    "U+1D07", "U+1D08", "U+1D09", "U+1D0A", "U+1D0B", "U+1D0C", "U+1D0D",
    "U+1D0E", "U+1D0F", "U+1D10", "U+1D11", "U+1D12", "U+1D13", "U+1D14",
    "U+1D15", "U+1D16", "U+1D17", "U+1D18", "U+1D19", "U+1D1A", "U+1D1B",
    "U+1D1C", "U+1D1D", "U+1D1E", "U+1D1F", "U+1D20", "U+1D21", "U+1D22",
    "U+1D23", "U+1D24", "U+1D25", "U+1D26", "U+1D27", "U+1D28", "U+1D29",
    "U+1D2A", "U+1D2B", "U+1D6B", "U+1D6C", "U+1D6D", "U+1D6E", "U+1D6F",
    "U+1D70", "U+1D71", "U+1D72", "U+1D73", "U+1D74", "U+1D75", "U+1D76",
    "U+1D77", "U+1D79", "U+1D7A", "U+1D7B", "U+1D7C", "U+1D7D", "U+1D7E",
    "U+1D7F", "U+1D80", "U+1D81", "U+1D82", "U+1D83", "U+1D84", "U+1D85",
    "U+1D86", "U+1D87", "U+1D88", "U+1D89", "U+1D8A", "U+1D8B", "U+1D8C",
    "U+1D8D", "U+1D8E", "U+1D8F", "U+1D90", "U+1D91", "U+1D92", "U+1D93",
    "U+1D94", "U+1D95", "U+1D96", "U+1D97", "U+1D98", "U+1D99", "U+1D9A",
    "U+1E00", "U+1E01", "U+1E02", "U+1E03", "U+1E04", "U+1E05", "U+1E06",
    "U+1E07", "U+1E08", "U+1E09", "U+1E0A", "U+1E0B", "U+1E0C", "U+1E0D",
    "U+1E0E", "U+1E0F", "U+1E10", "U+1E11", "U+1E12", "U+1E13", "U+1E14",
    "U+1E15", "U+1E16", "U+1E17", "U+1E18", "U+1E19", "U+1E1A", "U+1E1B",
    "U+1E1C", "U+1E1D", "U+1E1E", "U+1E1F", "U+1E20", "U+1E21", "U+1E22",
    "U+1E23", "U+1E24", "U+1E25", "U+1E26", "U+1E27", "U+1E28", "U+1E29",
    "U+1E2A", "U+1E2B", "U+1E2C", "U+1E2D", "U+1E2E", "U+1E2F", "U+1E30",
    "U+1E31", "U+1E32", "U+1E33", "U+1E34", "U+1E35", "U+1E36", "U+1E37",
    "U+1E38", "U+1E39", "U+1E3A", "U+1E3B", "U+1E3C", "U+1E3D", "U+1E3E",
    "U+1E3F", "U+1E40", "U+1E41", "U+1E42", "U+1E43", "U+1E44", "U+1E45",
    "U+1E46", "U+1E47", "U+1E48", "U+1E49", "U+1E4A", "U+1E4B", "U+1E4C",
    "U+1E4D", "U+1E4E", "U+1E4F", "U+1E50", "U+1E51", "U+1E52", "U+1E53",
    "U+1E54", "U+1E55", "U+1E56", "U+1E57", "U+1E58", "U+1E59", "U+1E5A",
    "U+1E5B", "U+1E5C", "U+1E5D", "U+1E5E", "U+1E5F", "U+1E60", "U+1E61",
    "U+1E62", "U+1E63", "U+1E64", "U+1E65", "U+1E66", "U+1E67", "U+1E68",
    "U+1E69", "U+1E6A", "U+1E6B", "U+1E6C", "U+1E6D", "U+1E6E", "U+1E6F",
    "U+1E70", "U+1E71", "U+1E72", "U+1E73", "U+1E74", "U+1E75", "U+1E76",
    "U+1E77", "U+1E78", "U+1E79", "U+1E7A", "U+1E7B", "U+1E7C", "U+1E7D",
    "U+1E7E", "U+1E7F", "U+1E80", "U+1E81", "U+1E82", "U+1E83", "U+1E84",
    "U+1E85", "U+1E86", "U+1E87", "U+1E88", "U+1E89", "U+1E8A", "U+1E8B",
    "U+1E8C", "U+1E8D", "U+1E8E", "U+1E8F", "U+1E90", "U+1E91", "U+1E92",
    "U+1E93", "U+1E94", "U+1E95", "U+1E96", "U+1E97", "U+1E98", "U+1E99",
    "U+1E9A", "U+1E9B", "U+1E9C", "U+1E9D", "U+1E9E", "U+1E9F", "U+1EA0",
    "U+1EA1", "U+1EA2", "U+1EA3", "U+1EA4", "U+1EA5", "U+1EA6", "U+1EA7",
    "U+1EA8", "U+1EA9", "U+1EAA", "U+1EAB", "U+1EAC", "U+1EAD", "U+1EAE",
    "U+1EAF", "U+1EB0", "U+1EB1", "U+1EB2", "U+1EB3", "U+1EB4", "U+1EB5",
    "U+1EB6", "U+1EB7", "U+1EB8", "U+1EB9", "U+1EBA", "U+1EBB", "U+1EBC",
    "U+1EBD", "U+1EBE", "U+1EBF", "U+1EC0", "U+1EC1", "U+1EC2", "U+1EC3",
    "U+1EC4", "U+1EC5", "U+1EC6", "U+1EC7", "U+1EC8", "U+1EC9", "U+1ECA",
    "U+1ECB", "U+1ECC", "U+1ECD", "U+1ECE", "U+1ECF", "U+1ED0", "U+1ED1",
    "U+1ED2", "U+1ED3", "U+1ED4", "U+1ED5", "U+1ED6", "U+1ED7", "U+1ED8",
    "U+1ED9", "U+1EDA", "U+1EDB", "U+1EDC", "U+1EDD", "U+1EDE", "U+1EDF",
    "U+1EE0", "U+1EE1", "U+1EE2", "U+1EE3", "U+1EE4", "U+1EE5", "U+1EE6",
    "U+1EE7", "U+1EE8", "U+1EE9", "U+1EEA", "U+1EEB", "U+1EEC", "U+1EED",
    "U+1EEE", "U+1EEF", "U+1EF0", "U+1EF1", "U+1EF2", "U+1EF3", "U+1EF4",
    "U+1EF5", "U+1EF6", "U+1EF7", "U+1EF8", "U+1EF9", "U+1EFA", "U+1EFB",
    "U+1EFC", "U+1EFD", "U+1EFE", "U+1EFF", "U+1F00", "U+1F01", "U+1F02",
    "U+1F03", "U+1F04", "U+1F05", "U+1F06", "U+1F07", "U+1F08", "U+1F09",
    "U+1F0A", "U+1F0B", "U+1F0C", "U+1F0D", "U+1F0E", "U+1F0F", "U+1F10",
    "U+1F11", "U+1F12", "U+1F13", "U+1F14", "U+1F15", "U+1F18", "U+1F19",
    "U+1F1A", "U+1F1B", "U+1F1C", "U+1F1D", "U+1F20", "U+1F21", "U+1F22",
    "U+1F23", "U+1F24", "U+1F25", "U+1F26", "U+1F27", "U+1F28", "U+1F29",
    "U+1F2A", "U+1F2B", "U+1F2C", "U+1F2D", "U+1F2E", "U+1F2F", "U+1F30",
    "U+1F31", "U+1F32", "U+1F33", "U+1F34", "U+1F35", "U+1F36", "U+1F37",
    "U+1F38", "U+1F39", "U+1F3A", "U+1F3B", "U+1F3C", "U+1F3D", "U+1F3E",
    "U+1F3F", "U+1F40", "U+1F41", "U+1F42", "U+1F43", "U+1F44", "U+1F45",
    "U+1F48", "U+1F49", "U+1F4A", "U+1F4B", "U+1F4C", "U+1F4D", "U+1F50",
    "U+1F51", "U+1F52", "U+1F53", "U+1F54", "U+1F55", "U+1F56", "U+1F57",
    "U+1F59", "U+1F5B", "U+1F5D", "U+1F5F", "U+1F60", "U+1F61", "U+1F62",
    "U+1F63", "U+1F64", "U+1F65", "U+1F66", "U+1F67", "U+1F68", "U+1F69",
    "U+1F6A", "U+1F6B", "U+1F6C", "U+1F6D", "U+1F6E", "U+1F6F", "U+1F70",
    "U+1F71", "U+1F72", "U+1F73", "U+1F74", "U+1F75", "U+1F76", "U+1F77",
    "U+1F78", "U+1F79", "U+1F7A", "U+1F7B", "U+1F7C", "U+1F7D", "U+1F80",
    "U+1F81", "U+1F82", "U+1F83", "U+1F84", "U+1F85", "U+1F86", "U+1F87",
    "U+1F88", "U+1F89", "U+1F8A", "U+1F8B", "U+1F8C", "U+1F8D", "U+1F8E",
    "U+1F8F", "U+1F90", "U+1F91", "U+1F92", "U+1F93", "U+1F94", "U+1F95",
    "U+1F96", "U+1F97", "U+1F98", "U+1F99", "U+1F9A", "U+1F9B", "U+1F9C",
    "U+1F9D", "U+1F9E", "U+1F9F", "U+1FA0", "U+1FA1", "U+1FA2", "U+1FA3",
    "U+1FA4", "U+1FA5", "U+1FA6", "U+1FA7", "U+1FA8", "U+1FA9", "U+1FAA",
    "U+1FAB", "U+1FAC", "U+1FAD", "U+1FAE", "U+1FAF", "U+1FB0", "U+1FB1",
    "U+1FB2", "U+1FB3", "U+1FB4", "U+1FB6", "U+1FB7", "U+1FB8", "U+1FB9",
    "U+1FBA", "U+1FBB", "U+1FBC", "U+1FBE", "U+1FC2", "U+1FC3", "U+1FC4",
    "U+1FC6", "U+1FC7", "U+1FC8", "U+1FC9", "U+1FCA", "U+1FCB", "U+1FCC",
    "U+1FD0", "U+1FD1", "U+1FD2", "U+1FD3", "U+1FD6", "U+1FD7", "U+1FD8",
    "U+1FD9", "U+1FDA", "U+1FDB", "U+1FE0", "U+1FE1", "U+1FE2", "U+1FE3",
    "U+1FE4", "U+1FE5", "U+1FE6", "U+1FE7", "U+1FE8", "U+1FE9", "U+1FEA",
    "U+1FEB", "U+1FEC", "U+1FF2", "U+1FF3", "U+1FF4", "U+1FF6", "U+1FF7",
    "U+1FF8", "U+1FF9", "U+1FFA", "U+1FFB", "U+1FFC", "U+2102", "U+2107",
    "U+210A", "U+210B", "U+210C", "U+210D", "U+210E", "U+210F", "U+2110",
    "U+2111", "U+2112", "U+2113", "U+2115", "U+2119", "U+211A", "U+211B",
    "U+211C", "U+211D", "U+2124", "U+2126", "U+2128", "U+212A", "U+212B",
    "U+212C", "U+212D", "U+212F", "U+2130", "U+2131", "U+2132", "U+2133",
    "U+2134", "U+2139", "U+213C", "U+213D", "U+213E", "U+213F", "U+2145",
    "U+2146", "U+2147", "U+2148", "U+2149", "U+214E", "U+2160", "U+2161",
    "U+2162", "U+2163", "U+2164", "U+2165", "U+2166", "U+2167", "U+2168",
    "U+2169", "U+216A", "U+216B", "U+216C", "U+216D", "U+216E", "U+216F",
    "U+2170", "U+2171", "U+2172", "U+2173", "U+2174", "U+2175", "U+2176",
    "U+2177", "U+2178", "U+2179", "U+217A", "U+217B", "U+217C", "U+217D",
    "U+217E", "U+217F", "U+2183", "U+2184", "U+24B6", "U+24B7", "U+24B8",
    "U+24B9", "U+24BA", "U+24BB", "U+24BC", "U+24BD", "U+24BE", "U+24BF",
    "U+24C0", "U+24C1", "U+24C2", "U+24C3", "U+24C4", "U+24C5", "U+24C6",
    "U+24C7", "U+24C8", "U+24C9", "U+24CA", "U+24CB", "U+24CC", "U+24CD",
    "U+24CE", "U+24CF", "U+24D0", "U+24D1", "U+24D2", "U+24D3", "U+24D4",
    "U+24D5", "U+24D6", "U+24D7", "U+24D8", "U+24D9", "U+24DA", "U+24DB",
    "U+24DC", "U+24DD", "U+24DE", "U+24DF", "U+24E0", "U+24E1", "U+24E2",
    "U+24E3", "U+24E4", "U+24E5", "U+24E6", "U+24E7", "U+24E8", "U+24E9",
    "U+2C00", "U+2C01", "U+2C02", "U+2C03", "U+2C04", "U+2C05", "U+2C06",
    "U+2C07", "U+2C08", "U+2C09", "U+2C0A", "U+2C0B", "U+2C0C", "U+2C0D",
    "U+2C0E", "U+2C0F", "U+2C10", "U+2C11", "U+2C12", "U+2C13", "U+2C14",
    "U+2C15", "U+2C16", "U+2C17", "U+2C18", "U+2C19", "U+2C1A", "U+2C1B",
    "U+2C1C", "U+2C1D", "U+2C1E", "U+2C1F", "U+2C20", "U+2C21", "U+2C22",
    "U+2C23", "U+2C24", "U+2C25", "U+2C26", "U+2C27", "U+2C28", "U+2C29",
    "U+2C2A", "U+2C2B", "U+2C2C", "U+2C2D", "U+2C2E", "U+2C2F", "U+2C30",
    "U+2C31", "U+2C32", "U+2C33", "U+2C34", "U+2C35", "U+2C36", "U+2C37",
    "U+2C38", "U+2C39", "U+2C3A", "U+2C3B", "U+2C3C", "U+2C3D", "U+2C3E",
    "U+2C3F", "U+2C40", "U+2C41", "U+2C42", "U+2C43", "U+2C44", "U+2C45",
    "U+2C46", "U+2C47", "U+2C48", "U+2C49", "U+2C4A", "U+2C4B", "U+2C4C",
    "U+2C4D", "U+2C4E", "U+2C4F", "U+2C50", "U+2C51", "U+2C52", "U+2C53",
    "U+2C54", "U+2C55", "U+2C56", "U+2C57", "U+2C58", "U+2C59", "U+2C5A",
    "U+2C5B", "U+2C5C", "U+2C5D", "U+2C5E", "U+2C5F", "U+2C60", "U+2C61",
    "U+2C62", "U+2C63", "U+2C64", "U+2C65", "U+2C66", "U+2C67", "U+2C68",
    "U+2C69", "U+2C6A", "U+2C6B", "U+2C6C", "U+2C6D", "U+2C6E", "U+2C6F",
    "U+2C70", "U+2C71", "U+2C72", "U+2C73", "U+2C74", "U+2C75", "U+2C76",
    "U+2C77", "U+2C78", "U+2C79", "U+2C7A", "U+2C7B", "U+2C7E", "U+2C7F",
    "U+2C80", "U+2C81", "U+2C82", "U+2C83", "U+2C84", "U+2C85", "U+2C86",
    "U+2C87", "U+2C88", "U+2C89", "U+2C8A", "U+2C8B", "U+2C8C", "U+2C8D",
    "U+2C8E", "U+2C8F", "U+2C90", "U+2C91", "U+2C92", "U+2C93", "U+2C94",
    "U+2C95", "U+2C96", "U+2C97", "U+2C98", "U+2C99", "U+2C9A", "U+2C9B",
    "U+2C9C", "U+2C9D", "U+2C9E", "U+2C9F", "U+2CA0", "U+2CA1", "U+2CA2",
    "U+2CA3", "U+2CA4", "U+2CA5", "U+2CA6", "U+2CA7", "U+2CA8", "U+2CA9",
    "U+2CAA", "U+2CAB", "U+2CAC", "U+2CAD", "U+2CAE", "U+2CAF", "U+2CB0",
    "U+2CB1", "U+2CB2", "U+2CB3", "U+2CB4", "U+2CB5", "U+2CB6", "U+2CB7",
    "U+2CB8", "U+2CB9", "U+2CBA", "U+2CBB", "U+2CBC", "U+2CBD", "U+2CBE",
    "U+2CBF", "U+2CC0", "U+2CC1", "U+2CC2", "U+2CC3", "U+2CC4", "U+2CC5",
    "U+2CC6", "U+2CC7", "U+2CC8", "U+2CC9", "U+2CCA", "U+2CCB", "U+2CCC",
    "U+2CCD", "U+2CCE", "U+2CCF", "U+2CD0", "U+2CD1", "U+2CD2", "U+2CD3",
    "U+2CD4", "U+2CD5", "U+2CD6", "U+2CD7", "U+2CD8", "U+2CD9", "U+2CDA",
    "U+2CDB", "U+2CDC", "U+2CDD", "U+2CDE", "U+2CDF", "U+2CE0", "U+2CE1",
    "U+2CE2", "U+2CE3", "U+2CE4", "U+2CEB", "U+2CEC", "U+2CED", "U+2CEE",
    "U+2CF2", "U+2CF3", "U+2D00", "U+2D01", "U+2D02", "U+2D03", "U+2D04",
    "U+2D05", "U+2D06", "U+2D07", "U+2D08", "U+2D09", "U+2D0A", "U+2D0B",
    "U+2D0C", "U+2D0D", "U+2D0E", "U+2D0F", "U+2D10", "U+2D11", "U+2D12",
    "U+2D13", "U+2D14", "U+2D15", "U+2D16", "U+2D17", "U+2D18", "U+2D19",
    "U+2D1A", "U+2D1B", "U+2D1C", "U+2D1D", "U+2D1E", "U+2D1F", "U+2D20",
    "U+2D21", "U+2D22", "U+2D23", "U+2D24", "U+2D25", "U+2D27", "U+2D2D",
    "U+A640", "U+A641", "U+A642", "U+A643", "U+A644", "U+A645", "U+A646",
    "U+A647", "U+A648", "U+A649", "U+A64A", "U+A64B", "U+A64C", "U+A64D",
    "U+A64E", "U+A64F", "U+A650", "U+A651", "U+A652", "U+A653", "U+A654",
    "U+A655", "U+A656", "U+A657", "U+A658", "U+A659", "U+A65A", "U+A65B",
    "U+A65C", "U+A65D", "U+A65E", "U+A65F", "U+A660", "U+A661", "U+A662",
    "U+A663", "U+A664", "U+A665", "U+A666", "U+A667", "U+A668", "U+A669",
    "U+A66A", "U+A66B", "U+A66C", "U+A66D", "U+A680", "U+A681", "U+A682",
    "U+A683", "U+A684", "U+A685", "U+A686", "U+A687", "U+A688", "U+A689",
    "U+A68A", "U+A68B", "U+A68C", "U+A68D", "U+A68E", "U+A68F", "U+A690",
    "U+A691", "U+A692", "U+A693", "U+A694", "U+A695", "U+A696", "U+A697",
    "U+A698", "U+A699", "U+A69A", "U+A69B", "U+A722", "U+A723", "U+A724",
    "U+A725", "U+A726", "U+A727", "U+A728", "U+A729", "U+A72A", "U+A72B",
    "U+A72C", "U+A72D", "U+A72E", "U+A72F", "U+A730", "U+A731", "U+A732",
    "U+A733", "U+A734", "U+A735", "U+A736", "U+A737", "U+A738", "U+A739",
    "U+A73A", "U+A73B", "U+A73C", "U+A73D", "U+A73E", "U+A73F", "U+A740",
    "U+A741", "U+A742", "U+A743", "U+A744", "U+A745", "U+A746", "U+A747",
    "U+A748", "U+A749", "U+A74A", "U+A74B", "U+A74C", "U+A74D", "U+A74E",
    "U+A74F", "U+A750", "U+A751", "U+A752", "U+A753", "U+A754", "U+A755",
    "U+A756", "U+A757", "U+A758", "U+A759", "U+A75A", "U+A75B", "U+A75C",
    "U+A75D", "U+A75E", "U+A75F", "U+A760", "U+A761", "U+A762", "U+A763",
    "U+A764", "U+A765", "U+A766", "U+A767", "U+A768", "U+A769", "U+A76A",
    "U+A76B", "U+A76C", "U+A76D", "U+A76E", "U+A76F", "U+A771", "U+A772",
    "U+A773", "U+A774", "U+A775", "U+A776", "U+A777", "U+A778", "U+A779",
    "U+A77A", "U+A77B", "U+A77C", "U+A77D", "U+A77E", "U+A77F", "U+A780",
    "U+A781", "U+A782", "U+A783", "U+A784", "U+A785", "U+A786", "U+A787",
    "U+A78B", "U+A78C", "U+A78D", "U+A78E", "U+A790", "U+A791", "U+A792",
    "U+A793", "U+A794", "U+A795", "U+A796", "U+A797", "U+A798", "U+A799",
    "U+A79A", "U+A79B", "U+A79C", "U+A79D", "U+A79E", "U+A79F", "U+A7A0",
    "U+A7A1", "U+A7A2", "U+A7A3", "U+A7A4", "U+A7A5", "U+A7A6", "U+A7A7",
    "U+A7A8", "U+A7A9", "U+A7AA", "U+A7AB", "U+A7AC", "U+A7AD", "U+A7AE",
    "U+A7AF", "U+A7B0", "U+A7B1", "U+A7B2", "U+A7B3", "U+A7B4", "U+A7B5",
    "U+A7B6", "U+A7B7", "U+A7B8", "U+A7B9", "U+A7BA", "U+A7BB", "U+A7BC",
    "U+A7BD", "U+A7BE", "U+A7BF", "U+A7C0", "U+A7C1", "U+A7C2", "U+A7C3",
    "U+A7C4", "U+A7C5", "U+A7C6", "U+A7C7", "U+A7C8", "U+A7C9", "U+A7CA",
    "U+A7CB", "U+A7CC", "U+A7CD", "U+A7CE", "U+A7CF", "U+A7D0", "U+A7D1",
    "U+A7D2", "U+A7D3", "U+A7D4", "U+A7D5", "U+A7D6", "U+A7D7", "U+A7D8",
    "U+A7D9", "U+A7DA", "U+A7DB", "U+A7DC", "U+A7F5", "U+A7F6", "U+A7FA",
    "U+AB30", "U+AB31", "U+AB32", "U+AB33", "U+AB34", "U+AB35", "U+AB36",
    "U+AB37", "U+AB38", "U+AB39", "U+AB3A", "U+AB3B", "U+AB3C", "U+AB3D",
    "U+AB3E", "U+AB3F", "U+AB40", "U+AB41", "U+AB42", "U+AB43", "U+AB44",
    "U+AB45", "U+AB46", "U+AB47", "U+AB48", "U+AB49", "U+AB4A", "U+AB4B",
    "U+AB4C", "U+AB4D", "U+AB4E", "U+AB4F", "U+AB50", "U+AB51", "U+AB52",
    "U+AB53", "U+AB54", "U+AB55", "U+AB56", "U+AB57", "U+AB58", "U+AB59",
    "U+AB5A", "U+AB60", "U+AB61", "U+AB62", "U+AB63", "U+AB64", "U+AB65",
    "U+AB66", "U+AB67", "U+AB68", "U+AB70", "U+AB71", "U+AB72", "U+AB73",
    "U+AB74", "U+AB75", "U+AB76", "U+AB77", "U+AB78", "U+AB79", "U+AB7A",
    "U+AB7B", "U+AB7C", "U+AB7D", "U+AB7E", "U+AB7F", "U+AB80", "U+AB81",
    "U+AB82", "U+AB83", "U+AB84", "U+AB85", "U+AB86", "U+AB87", "U+AB88",
    "U+AB89", "U+AB8A", "U+AB8B", "U+AB8C", "U+AB8D", "U+AB8E", "U+AB8F",
    "U+AB90", "U+AB91", "U+AB92", "U+AB93", "U+AB94", "U+AB95", "U+AB96",
    "U+AB97", "U+AB98", "U+AB99", "U+AB9A", "U+AB9B", "U+AB9C", "U+AB9D",
    "U+AB9E", "U+AB9F", "U+ABA0", "U+ABA1", "U+ABA2", "U+ABA3", "U+ABA4",
    "U+ABA5", "U+ABA6", "U+ABA7", "U+ABA8", "U+ABA9", "U+ABAA", "U+ABAB",
    "U+ABAC", "U+ABAD", "U+ABAE", "U+ABAF", "U+ABB0", "U+ABB1", "U+ABB2",
    "U+ABB3", "U+ABB4", "U+ABB5", "U+ABB6", "U+ABB7", "U+ABB8", "U+ABB9",
    "U+ABBA", "U+ABBB", "U+ABBC", "U+ABBD", "U+ABBE", "U+ABBF", "U+FB00",
    "U+FB01", "U+FB02", "U+FB03", "U+FB04", "U+FB05", "U+FB06", "U+FB13",
    "U+FB14", "U+FB15", "U+FB16", "U+FB17", "U+FF21", "U+FF22", "U+FF23",
    "U+FF24", "U+FF25", "U+FF26", "U+FF27", "U+FF28", "U+FF29", "U+FF2A",
    "U+FF2B", "U+FF2C", "U+FF2D", "U+FF2E", "U+FF2F", "U+FF30", "U+FF31",
    "U+FF32", "U+FF33", "U+FF34", "U+FF35", "U+FF36", "U+FF37", "U+FF38",
    "U+FF39", "U+FF3A", "U+FF41", "U+FF42", "U+FF43", "U+FF44", "U+FF45",
    "U+FF46", "U+FF47", "U+FF48", "U+FF49", "U+FF4A", "U+FF4B", "U+FF4C",
    "U+FF4D", "U+FF4E", "U+FF4F", "U+FF50", "U+FF51", "U+FF52", "U+FF53",
    "U+FF54", "U+FF55", "U+FF56", "U+FF57", "U+FF58", "U+FF59", "U+FF5A"}

CASED_PAIRS ==
  {<<"U+D801","U+DC00">>, <<"U+D801","U+DC01">>, <<"U+D801","U+DC02">>,
    <<"U+D801","U+DC03">>, <<"U+D801","U+DC04">>, <<"U+D801","U+DC05">>,
    <<"U+D801","U+DC06">>, <<"U+D801","U+DC07">>, <<"U+D801","U+DC08">>,
    <<"U+D801","U+DC09">>, <<"U+D801","U+DC0A">>, <<"U+D801","U+DC0B">>,
    <<"U+D801","U+DC0C">>, <<"U+D801","U+DC0D">>, <<"U+D801","U+DC0E">>,
    <<"U+D801","U+DC0F">>, <<"U+D801","U+DC10">>, <<"U+D801","U+DC11">>,
    <<"U+D801","U+DC12">>, <<"U+D801","U+DC13">>, <<"U+D801","U+DC14">>,
    <<"U+D801","U+DC15">>, <<"U+D801","U+DC16">>, <<"U+D801","U+DC17">>,
    <<"U+D801","U+DC18">>, <<"U+D801","U+DC19">>, <<"U+D801","U+DC1A">>,
    <<"U+D801","U+DC1B">>, <<"U+D801","U+DC1C">>, <<"U+D801","U+DC1D">>,
    <<"U+D801","U+DC1E">>, <<"U+D801","U+DC1F">>, <<"U+D801","U+DC20">>,
    <<"U+D801","U+DC21">>, <<"U+D801","U+DC22">>, <<"U+D801","U+DC23">>,
    <<"U+D801","U+DC24">>, <<"U+D801","U+DC25">>, <<"U+D801","U+DC26">>,
    <<"U+D801","U+DC27">>, <<"U+D801","U+DC28">>, <<"U+D801","U+DC29">>,
    <<"U+D801","U+DC2A">>, <<"U+D801","U+DC2B">>, <<"U+D801","U+DC2C">>,
    <<"U+D801","U+DC2D">>, <<"U+D801","U+DC2E">>, <<"U+D801","U+DC2F">>,
    <<"U+D801","U+DC30">>, <<"U+D801","U+DC31">>, <<"U+D801","U+DC32">>,
    <<"U+D801","U+DC33">>, <<"U+D801","U+DC34">>, <<"U+D801","U+DC35">>,
    <<"U+D801","U+DC36">>, <<"U+D801","U+DC37">>, <<"U+D801","U+DC38">>,
    <<"U+D801","U+DC39">>, <<"U+D801","U+DC3A">>, <<"U+D801","U+DC3B">>,
    <<"U+D801","U+DC3C">>, <<"U+D801","U+DC3D">>, <<"U+D801","U+DC3E">>,
    <<"U+D801","U+DC3F">>, <<"U+D801","U+DC40">>, <<"U+D801","U+DC41">>,
    <<"U+D801","U+DC42">>, <<"U+D801","U+DC43">>, <<"U+D801","U+DC44">>,
    <<"U+D801","U+DC45">>, <<"U+D801","U+DC46">>, <<"U+D801","U+DC47">>,
    <<"U+D801","U+DC48">>, <<"U+D801","U+DC49">>, <<"U+D801","U+DC4A">>,
    <<"U+D801","U+DC4B">>, <<"U+D801","U+DC4C">>, <<"U+D801","U+DC4D">>,
    <<"U+D801","U+DC4E">>, <<"U+D801","U+DC4F">>, <<"U+D801","U+DCB0">>,
    <<"U+D801","U+DCB1">>, <<"U+D801","U+DCB2">>, <<"U+D801","U+DCB3">>,
    <<"U+D801","U+DCB4">>, <<"U+D801","U+DCB5">>, <<"U+D801","U+DCB6">>,
    <<"U+D801","U+DCB7">>, <<"U+D801","U+DCB8">>, <<"U+D801","U+DCB9">>,
    <<"U+D801","U+DCBA">>, <<"U+D801","U+DCBB">>, <<"U+D801","U+DCBC">>,
    <<"U+D801","U+DCBD">>, <<"U+D801","U+DCBE">>, <<"U+D801","U+DCBF">>,
    <<"U+D801","U+DCC0">>, <<"U+D801","U+DCC1">>, <<"U+D801","U+DCC2">>,
    <<"U+D801","U+DCC3">>, <<"U+D801","U+DCC4">>, <<"U+D801","U+DCC5">>,
    <<"U+D801","U+DCC6">>, <<"U+D801","U+DCC7">>, <<"U+D801","U+DCC8">>,
    <<"U+D801","U+DCC9">>, <<"U+D801","U+DCCA">>, <<"U+D801","U+DCCB">>,
    <<"U+D801","U+DCCC">>, <<"U+D801","U+DCCD">>, <<"U+D801","U+DCCE">>,
    <<"U+D801","U+DCCF">>, <<"U+D801","U+DCD0">>, <<"U+D801","U+DCD1">>,
    <<"U+D801","U+DCD2">>, <<"U+D801","U+DCD3">>, <<"U+D801","U+DCD8">>,
    <<"U+D801","U+DCD9">>, <<"U+D801","U+DCDA">>, <<"U+D801","U+DCDB">>,
    <<"U+D801","U+DCDC">>, <<"U+D801","U+DCDD">>, <<"U+D801","U+DCDE">>,
    <<"U+D801","U+DCDF">>, <<"U+D801","U+DCE0">>, <<"U+D801","U+DCE1">>,
    <<"U+D801","U+DCE2">>, <<"U+D801","U+DCE3">>, <<"U+D801","U+DCE4">>,
    <<"U+D801","U+DCE5">>, <<"U+D801","U+DCE6">>, <<"U+D801","U+DCE7">>,
    <<"U+D801","U+DCE8">>, <<"U+D801","U+DCE9">>, <<"U+D801","U+DCEA">>,
    <<"U+D801","U+DCEB">>, <<"U+D801","U+DCEC">>, <<"U+D801","U+DCED">>,
    <<"U+D801","U+DCEE">>, <<"U+D801","U+DCEF">>, <<"U+D801","U+DCF0">>,
    <<"U+D801","U+DCF1">>, <<"U+D801","U+DCF2">>, <<"U+D801","U+DCF3">>,
    <<"U+D801","U+DCF4">>, <<"U+D801","U+DCF5">>, <<"U+D801","U+DCF6">>,
    <<"U+D801","U+DCF7">>, <<"U+D801","U+DCF8">>, <<"U+D801","U+DCF9">>,
    <<"U+D801","U+DCFA">>, <<"U+D801","U+DCFB">>, <<"U+D801","U+DD70">>,
    <<"U+D801","U+DD71">>, <<"U+D801","U+DD72">>, <<"U+D801","U+DD73">>,
    <<"U+D801","U+DD74">>, <<"U+D801","U+DD75">>, <<"U+D801","U+DD76">>,
    <<"U+D801","U+DD77">>, <<"U+D801","U+DD78">>, <<"U+D801","U+DD79">>,
    <<"U+D801","U+DD7A">>, <<"U+D801","U+DD7C">>, <<"U+D801","U+DD7D">>,
    <<"U+D801","U+DD7E">>, <<"U+D801","U+DD7F">>, <<"U+D801","U+DD80">>,
    <<"U+D801","U+DD81">>, <<"U+D801","U+DD82">>, <<"U+D801","U+DD83">>,
    <<"U+D801","U+DD84">>, <<"U+D801","U+DD85">>, <<"U+D801","U+DD86">>,
    <<"U+D801","U+DD87">>, <<"U+D801","U+DD88">>, <<"U+D801","U+DD89">>,
    <<"U+D801","U+DD8A">>, <<"U+D801","U+DD8C">>, <<"U+D801","U+DD8D">>,
    <<"U+D801","U+DD8E">>, <<"U+D801","U+DD8F">>, <<"U+D801","U+DD90">>,
    <<"U+D801","U+DD91">>, <<"U+D801","U+DD92">>, <<"U+D801","U+DD94">>,
    <<"U+D801","U+DD95">>, <<"U+D801","U+DD97">>, <<"U+D801","U+DD98">>,
    <<"U+D801","U+DD99">>, <<"U+D801","U+DD9A">>, <<"U+D801","U+DD9B">>,
    <<"U+D801","U+DD9C">>, <<"U+D801","U+DD9D">>, <<"U+D801","U+DD9E">>,
    <<"U+D801","U+DD9F">>, <<"U+D801","U+DDA0">>, <<"U+D801","U+DDA1">>,
    <<"U+D801","U+DDA3">>, <<"U+D801","U+DDA4">>, <<"U+D801","U+DDA5">>,
    <<"U+D801","U+DDA6">>, <<"U+D801","U+DDA7">>, <<"U+D801","U+DDA8">>,
    <<"U+D801","U+DDA9">>, <<"U+D801","U+DDAA">>, <<"U+D801","U+DDAB">>,
    <<"U+D801","U+DDAC">>, <<"U+D801","U+DDAD">>, <<"U+D801","U+DDAE">>,
    <<"U+D801","U+DDAF">>, <<"U+D801","U+DDB0">>, <<"U+D801","U+DDB1">>,
    <<"U+D801","U+DDB3">>, <<"U+D801","U+DDB4">>, <<"U+D801","U+DDB5">>,
    <<"U+D801","U+DDB6">>, <<"U+D801","U+DDB7">>, <<"U+D801","U+DDB8">>,
    <<"U+D801","U+DDB9">>, <<"U+D801","U+DDBB">>, <<"U+D801","U+DDBC">>,
    <<"U+D803","U+DC80">>, <<"U+D803","U+DC81">>, <<"U+D803","U+DC82">>,
    <<"U+D803","U+DC83">>, <<"U+D803","U+DC84">>, <<"U+D803","U+DC85">>,
    <<"U+D803","U+DC86">>, <<"U+D803","U+DC87">>, <<"U+D803","U+DC88">>,
    <<"U+D803","U+DC89">>, <<"U+D803","U+DC8A">>, <<"U+D803","U+DC8B">>,
    <<"U+D803","U+DC8C">>, <<"U+D803","U+DC8D">>, <<"U+D803","U+DC8E">>,
    <<"U+D803","U+DC8F">>, <<"U+D803","U+DC90">>, <<"U+D803","U+DC91">>,
    <<"U+D803","U+DC92">>, <<"U+D803","U+DC93">>, <<"U+D803","U+DC94">>,
    <<"U+D803","U+DC95">>, <<"U+D803","U+DC96">>, <<"U+D803","U+DC97">>,
    <<"U+D803","U+DC98">>, <<"U+D803","U+DC99">>, <<"U+D803","U+DC9A">>,
    <<"U+D803","U+DC9B">>, <<"U+D803","U+DC9C">>, <<"U+D803","U+DC9D">>,
    <<"U+D803","U+DC9E">>, <<"U+D803","U+DC9F">>, <<"U+D803","U+DCA0">>,
    <<"U+D803","U+DCA1">>, <<"U+D803","U+DCA2">>, <<"U+D803","U+DCA3">>,
    <<"U+D803","U+DCA4">>, <<"U+D803","U+DCA5">>, <<"U+D803","U+DCA6">>,
    <<"U+D803","U+DCA7">>, <<"U+D803","U+DCA8">>, <<"U+D803","U+DCA9">>,
    <<"U+D803","U+DCAA">>, <<"U+D803","U+DCAB">>, <<"U+D803","U+DCAC">>,
    <<"U+D803","U+DCAD">>, <<"U+D803","U+DCAE">>, <<"U+D803","U+DCAF">>,
    <<"U+D803","U+DCB0">>, <<"U+D803","U+DCB1">>, <<"U+D803","U+DCB2">>,
    <<"U+D803","U+DCC0">>, <<"U+D803","U+DCC1">>, <<"U+D803","U+DCC2">>,
    <<"U+D803","U+DCC3">>, <<"U+D803","U+DCC4">>, <<"U+D803","U+DCC5">>,
    <<"U+D803","U+DCC6">>, <<"U+D803","U+DCC7">>, <<"U+D803","U+DCC8">>,
    <<"U+D803","U+DCC9">>, <<"U+D803","U+DCCA">>, <<"U+D803","U+DCCB">>,
    <<"U+D803","U+DCCC">>, <<"U+D803","U+DCCD">>, <<"U+D803","U+DCCE">>,
    <<"U+D803","U+DCCF">>, <<"U+D803","U+DCD0">>, <<"U+D803","U+DCD1">>,
    <<"U+D803","U+DCD2">>, <<"U+D803","U+DCD3">>, <<"U+D803","U+DCD4">>,
    <<"U+D803","U+DCD5">>, <<"U+D803","U+DCD6">>, <<"U+D803","U+DCD7">>,
    <<"U+D803","U+DCD8">>, <<"U+D803","U+DCD9">>, <<"U+D803","U+DCDA">>,
    <<"U+D803","U+DCDB">>, <<"U+D803","U+DCDC">>, <<"U+D803","U+DCDD">>,
    <<"U+D803","U+DCDE">>, <<"U+D803","U+DCDF">>, <<"U+D803","U+DCE0">>,
    <<"U+D803","U+DCE1">>, <<"U+D803","U+DCE2">>, <<"U+D803","U+DCE3">>,
    <<"U+D803","U+DCE4">>, <<"U+D803","U+DCE5">>, <<"U+D803","U+DCE6">>,
    <<"U+D803","U+DCE7">>, <<"U+D803","U+DCE8">>, <<"U+D803","U+DCE9">>,
    <<"U+D803","U+DCEA">>, <<"U+D803","U+DCEB">>, <<"U+D803","U+DCEC">>,
    <<"U+D803","U+DCED">>, <<"U+D803","U+DCEE">>, <<"U+D803","U+DCEF">>,
    <<"U+D803","U+DCF0">>, <<"U+D803","U+DCF1">>, <<"U+D803","U+DCF2">>,
    <<"U+D803","U+DD50">>, <<"U+D803","U+DD51">>, <<"U+D803","U+DD52">>,
    <<"U+D803","U+DD53">>, <<"U+D803","U+DD54">>, <<"U+D803","U+DD55">>,
    <<"U+D803","U+DD56">>, <<"U+D803","U+DD57">>, <<"U+D803","U+DD58">>,
    <<"U+D803","U+DD59">>, <<"U+D803","U+DD5A">>, <<"U+D803","U+DD5B">>,
    <<"U+D803","U+DD5C">>, <<"U+D803","U+DD5D">>, <<"U+D803","U+DD5E">>,
    <<"U+D803","U+DD5F">>, <<"U+D803","U+DD60">>, <<"U+D803","U+DD61">>,
    <<"U+D803","U+DD62">>, <<"U+D803","U+DD63">>, <<"U+D803","U+DD64">>,
    <<"U+D803","U+DD65">>, <<"U+D803","U+DD70">>, <<"U+D803","U+DD71">>,
    <<"U+D803","U+DD72">>, <<"U+D803","U+DD73">>, <<"U+D803","U+DD74">>,
    <<"U+D803","U+DD75">>, <<"U+D803","U+DD76">>, <<"U+D803","U+DD77">>,
    <<"U+D803","U+DD78">>, <<"U+D803","U+DD79">>, <<"U+D803","U+DD7A">>,
    <<"U+D803","U+DD7B">>, <<"U+D803","U+DD7C">>, <<"U+D803","U+DD7D">>,
    <<"U+D803","U+DD7E">>, <<"U+D803","U+DD7F">>, <<"U+D803","U+DD80">>,
    <<"U+D803","U+DD81">>, <<"U+D803","U+DD82">>, <<"U+D803","U+DD83">>,
    <<"U+D803","U+DD84">>, <<"U+D803","U+DD85">>, <<"U+D806","U+DCA0">>,
    <<"U+D806","U+DCA1">>, <<"U+D806","U+DCA2">>, <<"U+D806","U+DCA3">>,
    <<"U+D806","U+DCA4">>, <<"U+D806","U+DCA5">>, <<"U+D806","U+DCA6">>,
    <<"U+D806","U+DCA7">>, <<"U+D806","U+DCA8">>, <<"U+D806","U+DCA9">>,
    <<"U+D806","U+DCAA">>, <<"U+D806","U+DCAB">>, <<"U+D806","U+DCAC">>,
    <<"U+D806","U+DCAD">>, <<"U+D806","U+DCAE">>, <<"U+D806","U+DCAF">>,
    <<"U+D806","U+DCB0">>, <<"U+D806","U+DCB1">>, <<"U+D806","U+DCB2">>,
    <<"U+D806","U+DCB3">>, <<"U+D806","U+DCB4">>, <<"U+D806","U+DCB5">>,
    <<"U+D806","U+DCB6">>, <<"U+D806","U+DCB7">>, <<"U+D806","U+DCB8">>,
    <<"U+D806","U+DCB9">>, <<"U+D806","U+DCBA">>, <<"U+D806","U+DCBB">>,
    <<"U+D806","U+DCBC">>, <<"U+D806","U+DCBD">>, <<"U+D806","U+DCBE">>,
    <<"U+D806","U+DCBF">>, <<"U+D806","U+DCC0">>, <<"U+D806","U+DCC1">>,
    <<"U+D806","U+DCC2">>, <<"U+D806","U+DCC3">>, <<"U+D806","U+DCC4">>,
    <<"U+D806","U+DCC5">>, <<"U+D806","U+DCC6">>, <<"U+D806","U+DCC7">>,
    <<"U+D806","U+DCC8">>, <<"U+D806","U+DCC9">>, <<"U+D806","U+DCCA">>,
    <<"U+D806","U+DCCB">>, <<"U+D806","U+DCCC">>, <<"U+D806","U+DCCD">>,
    <<"U+D806","U+DCCE">>, <<"U+D806","U+DCCF">>, <<"U+D806","U+DCD0">>,
    <<"U+D806","U+DCD1">>, <<"U+D806","U+DCD2">>, <<"U+D806","U+DCD3">>,
    <<"U+D806","U+DCD4">>, <<"U+D806","U+DCD5">>, <<"U+D806","U+DCD6">>,
    <<"U+D806","U+DCD7">>, <<"U+D806","U+DCD8">>, <<"U+D806","U+DCD9">>,
    <<"U+D806","U+DCDA">>, <<"U+D806","U+DCDB">>, <<"U+D806","U+DCDC">>,
    <<"U+D806","U+DCDD">>, <<"U+D806","U+DCDE">>, <<"U+D806","U+DCDF">>,
    <<"U+D81B","U+DE40">>, <<"U+D81B","U+DE41">>, <<"U+D81B","U+DE42">>,
    <<"U+D81B","U+DE43">>, <<"U+D81B","U+DE44">>, <<"U+D81B","U+DE45">>,
    <<"U+D81B","U+DE46">>, <<"U+D81B","U+DE47">>, <<"U+D81B","U+DE48">>,
    <<"U+D81B","U+DE49">>, <<"U+D81B","U+DE4A">>, <<"U+D81B","U+DE4B">>,
    <<"U+D81B","U+DE4C">>, <<"U+D81B","U+DE4D">>, <<"U+D81B","U+DE4E">>,
    <<"U+D81B","U+DE4F">>, <<"U+D81B","U+DE50">>, <<"U+D81B","U+DE51">>,
    <<"U+D81B","U+DE52">>, <<"U+D81B","U+DE53">>, <<"U+D81B","U+DE54">>,
    <<"U+D81B","U+DE55">>, <<"U+D81B","U+DE56">>, <<"U+D81B","U+DE57">>,
    <<"U+D81B","U+DE58">>, <<"U+D81B","U+DE59">>, <<"U+D81B","U+DE5A">>,
    <<"U+D81B","U+DE5B">>, <<"U+D81B","U+DE5C">>, <<"U+D81B","U+DE5D">>,
    <<"U+D81B","U+DE5E">>, <<"U+D81B","U+DE5F">>, <<"U+D81B","U+DE60">>,
    <<"U+D81B","U+DE61">>, <<"U+D81B","U+DE62">>, <<"U+D81B","U+DE63">>,
    <<"U+D81B","U+DE64">>, <<"U+D81B","U+DE65">>, <<"U+D81B","U+DE66">>,
    <<"U+D81B","U+DE67">>, <<"U+D81B","U+DE68">>, <<"U+D81B","U+DE69">>,
    <<"U+D81B","U+DE6A">>, <<"U+D81B","U+DE6B">>, <<"U+D81B","U+DE6C">>,
    <<"U+D81B","U+DE6D">>, <<"U+D81B","U+DE6E">>, <<"U+D81B","U+DE6F">>,
    <<"U+D81B","U+DE70">>, <<"U+D81B","U+DE71">>, <<"U+D81B","U+DE72">>,
    <<"U+D81B","U+DE73">>, <<"U+D81B","U+DE74">>, <<"U+D81B","U+DE75">>,
    <<"U+D81B","U+DE76">>, <<"U+D81B","U+DE77">>, <<"U+D81B","U+DE78">>,
    <<"U+D81B","U+DE79">>, <<"U+D81B","U+DE7A">>, <<"U+D81B","U+DE7B">>,
    <<"U+D81B","U+DE7C">>, <<"U+D81B","U+DE7D">>, <<"U+D81B","U+DE7E">>,
    <<"U+D81B","U+DE7F">>, <<"U+D81B","U+DEA0">>, <<"U+D81B","U+DEA1">>,
    <<"U+D81B","U+DEA2">>, <<"U+D81B","U+DEA3">>, <<"U+D81B","U+DEA4">>,
    <<"U+D81B","U+DEA5">>, <<"U+D81B","U+DEA6">>, <<"U+D81B","U+DEA7">>,
    <<"U+D81B","U+DEA8">>, <<"U+D81B","U+DEA9">>, <<"U+D81B","U+DEAA">>,
    <<"U+D81B","U+DEAB">>, <<"U+D81B","U+DEAC">>, <<"U+D81B","U+DEAD">>,
    <<"U+D81B","U+DEAE">>, <<"U+D81B","U+DEAF">>, <<"U+D81B","U+DEB0">>,
    <<"U+D81B","U+DEB1">>, <<"U+D81B","U+DEB2">>, <<"U+D81B","U+DEB3">>,
    <<"U+D81B","U+DEB4">>, <<"U+D81B","U+DEB5">>, <<"U+D81B","U+DEB6">>,
    <<"U+D81B","U+DEB7">>, <<"U+D81B","U+DEB8">>, <<"U+D81B","U+DEBB">>,
    <<"U+D81B","U+DEBC">>, <<"U+D81B","U+DEBD">>, <<"U+D81B","U+DEBE">>,
    <<"U+D81B","U+DEBF">>, <<"U+D81B","U+DEC0">>, <<"U+D81B","U+DEC1">>,
    <<"U+D81B","U+DEC2">>, <<"U+D81B","U+DEC3">>, <<"U+D81B","U+DEC4">>,
    <<"U+D81B","U+DEC5">>, <<"U+D81B","U+DEC6">>, <<"U+D81B","U+DEC7">>,
    <<"U+D81B","U+DEC8">>, <<"U+D81B","U+DEC9">>, <<"U+D81B","U+DECA">>,
    <<"U+D81B","U+DECB">>, <<"U+D81B","U+DECC">>, <<"U+D81B","U+DECD">>,
    <<"U+D81B","U+DECE">>, <<"U+D81B","U+DECF">>, <<"U+D81B","U+DED0">>,
    <<"U+D81B","U+DED1">>, <<"U+D81B","U+DED2">>, <<"U+D81B","U+DED3">>,
    <<"U+D835","U+DC00">>, <<"U+D835","U+DC01">>, <<"U+D835","U+DC02">>,
    <<"U+D835","U+DC03">>, <<"U+D835","U+DC04">>, <<"U+D835","U+DC05">>,
    <<"U+D835","U+DC06">>, <<"U+D835","U+DC07">>, <<"U+D835","U+DC08">>,
    <<"U+D835","U+DC09">>, <<"U+D835","U+DC0A">>, <<"U+D835","U+DC0B">>,
    <<"U+D835","U+DC0C">>, <<"U+D835","U+DC0D">>, <<"U+D835","U+DC0E">>,
    <<"U+D835","U+DC0F">>, <<"U+D835","U+DC10">>, <<"U+D835","U+DC11">>,
    <<"U+D835","U+DC12">>, <<"U+D835","U+DC13">>, <<"U+D835","U+DC14">>,
    <<"U+D835","U+DC15">>, <<"U+D835","U+DC16">>, <<"U+D835","U+DC17">>,
    <<"U+D835","U+DC18">>, <<"U+D835","U+DC19">>, <<"U+D835","U+DC1A">>,
    <<"U+D835","U+DC1B">>, <<"U+D835","U+DC1C">>, <<"U+D835","U+DC1D">>,
    <<"U+D835","U+DC1E">>, <<"U+D835","U+DC1F">>, <<"U+D835","U+DC20">>,
    <<"U+D835","U+DC21">>, <<"U+D835","U+DC22">>, <<"U+D835","U+DC23">>,
    <<"U+D835","U+DC24">>, <<"U+D835","U+DC25">>, <<"U+D835","U+DC26">>,
    <<"U+D835","U+DC27">>, <<"U+D835","U+DC28">>, <<"U+D835","U+DC29">>,
    <<"U+D835","U+DC2A">>, <<"U+D835","U+DC2B">>, <<"U+D835","U+DC2C">>,
    <<"U+D835","U+DC2D">>, <<"U+D835","U+DC2E">>, <<"U+D835","U+DC2F">>,
    <<"U+D835","U+DC30">>, <<"U+D835","U+DC31">>, <<"U+D835","U+DC32">>,
    <<"U+D835","U+DC33">>, <<"U+D835","U+DC34">>, <<"U+D835","U+DC35">>,
    <<"U+D835","U+DC36">>, <<"U+D835","U+DC37">>, <<"U+D835","U+DC38">>,
    <<"U+D835","U+DC39">>, <<"U+D835","U+DC3A">>, <<"U+D835","U+DC3B">>,
    <<"U+D835","U+DC3C">>, <<"U+D835","U+DC3D">>, <<"U+D835","U+DC3E">>,
    <<"U+D835","U+DC3F">>, <<"U+D835","U+DC40">>, <<"U+D835","U+DC41">>,
    <<"U+D835","U+DC42">>, <<"U+D835","U+DC43">>, <<"U+D835","U+DC44">>,
    <<"U+D835","U+DC45">>, <<"U+D835","U+DC46">>, <<"U+D835","U+DC47">>,
    <<"U+D835","U+DC48">>, <<"U+D835","U+DC49">>, <<"U+D835","U+DC4A">>,
    <<"U+D835","U+DC4B">>, <<"U+D835","U+DC4C">>, <<"U+D835","U+DC4D">>,
    <<"U+D835","U+DC4E">>, <<"U+D835","U+DC4F">>, <<"U+D835","U+DC50">>,
    <<"U+D835","U+DC51">>, <<"U+D835","U+DC52">>, <<"U+D835","U+DC53">>,
    <<"U+D835","U+DC54">>, <<"U+D835","U+DC56">>, <<"U+D835","U+DC57">>,
    <<"U+D835","U+DC58">>, <<"U+D835","U+DC59">>, <<"U+D835","U+DC5A">>,
    <<"U+D835","U+DC5B">>, <<"U+D835","U+DC5C">>, <<"U+D835","U+DC5D">>,
    <<"U+D835","U+DC5E">>, <<"U+D835","U+DC5F">>, <<"U+D835","U+DC60">>,
    <<"U+D835","U+DC61">>, <<"U+D835","U+DC62">>, <<"U+D835","U+DC63">>,
    <<"U+D835","U+DC64">>, <<"U+D835","U+DC65">>, <<"U+D835","U+DC66">>,
    <<"U+D835","U+DC67">>, <<"U+D835","U+DC68">>, <<"U+D835","U+DC69">>,
    <<"U+D835","U+DC6A">>, <<"U+D835","U+DC6B">>, <<"U+D835","U+DC6C">>,
    <<"U+D835","U+DC6D">>, <<"U+D835","U+DC6E">>, <<"U+D835","U+DC6F">>,
    <<"U+D835","U+DC70">>, <<"U+D835","U+DC71">>, <<"U+D835","U+DC72">>,
    <<"U+D835","U+DC73">>, <<"U+D835","U+DC74">>, <<"U+D835","U+DC75">>,
    <<"U+D835","U+DC76">>, <<"U+D835","U+DC77">>, <<"U+D835","U+DC78">>,
    <<"U+D835","U+DC79">>, <<"U+D835","U+DC7A">>, <<"U+D835","U+DC7B">>,
    <<"U+D835","U+DC7C">>, <<"U+D835","U+DC7D">>, <<"U+D835","U+DC7E">>,
    <<"U+D835","U+DC7F">>, <<"U+D835","U+DC80">>, <<"U+D835","U+DC81">>,
    <<"U+D835","U+DC82">>, <<"U+D835","U+DC83">>, <<"U+D835","U+DC84">>,
    <<"U+D835","U+DC85">>, <<"U+D835","U+DC86">>, <<"U+D835","U+DC87">>,
    <<"U+D835","U+DC88">>, <<"U+D835","U+DC89">>, <<"U+D835","U+DC8A">>,
    <<"U+D835","U+DC8B">>, <<"U+D835","U+DC8C">>, <<"U+D835","U+DC8D">>,
    <<"U+D835","U+DC8E">>, <<"U+D835","U+DC8F">>, <<"U+D835","U+DC90">>,
    <<"U+D835","U+DC91">>, <<"U+D835","U+DC92">>, <<"U+D835","U+DC93">>,
    <<"U+D835","U+DC94">>, <<"U+D835","U+DC95">>, <<"U+D835","U+DC96">>,
    <<"U+D835","U+DC97">>, <<"U+D835","U+DC98">>, <<"U+D835","U+DC99">>,
    <<"U+D835","U+DC9A">>, <<"U+D835","U+DC9B">>, <<"U+D835","U+DC9C">>,
    <<"U+D835","U+DC9E">>, <<"U+D835","U+DC9F">>, <<"U+D835","U+DCA2">>,
    <<"U+D835","U+DCA5">>, <<"U+D835","U+DCA6">>, <<"U+D835","U+DCA9">>,
    <<"U+D835","U+DCAA">>, <<"U+D835","U+DCAB">>, <<"U+D835","U+DCAC">>,
    <<"U+D835","U+DCAE">>, <<"U+D835","U+DCAF">>, <<"U+D835","U+DCB0">>,
    <<"U+D835","U+DCB1">>, <<"U+D835","U+DCB2">>, <<"U+D835","U+DCB3">>,
    <<"U+D835","U+DCB4">>, <<"U+D835","U+DCB5">>, <<"U+D835","U+DCB6">>,
    <<"U+D835","U+DCB7">>, <<"U+D835","U+DCB8">>, <<"U+D835","U+DCB9">>,
    <<"U+D835","U+DCBB">>, <<"U+D835","U+DCBD">>, <<"U+D835","U+DCBE">>,
    <<"U+D835","U+DCBF">>, <<"U+D835","U+DCC0">>, <<"U+D835","U+DCC1">>,
    <<"U+D835","U+DCC2">>, <<"U+D835","U+DCC3">>, <<"U+D835","U+DCC5">>,
    <<"U+D835","U+DCC6">>, <<"U+D835","U+DCC7">>, <<"U+D835","U+DCC8">>,
    <<"U+D835","U+DCC9">>, <<"U+D835","U+DCCA">>, <<"U+D835","U+DCCB">>,
    <<"U+D835","U+DCCC">>, <<"U+D835","U+DCCD">>, <<"U+D835","U+DCCE">>,
    <<"U+D835","U+DCCF">>, <<"U+D835","U+DCD0">>, <<"U+D835","U+DCD1">>,
    <<"U+D835","U+DCD2">>, <<"U+D835","U+DCD3">>, <<"U+D835","U+DCD4">>,
    <<"U+D835","U+DCD5">>, <<"U+D835","U+DCD6">>, <<"U+D835","U+DCD7">>,
    <<"U+D835","U+DCD8">>, <<"U+D835","U+DCD9">>, <<"U+D835","U+DCDA">>,
    <<"U+D835","U+DCDB">>, <<"U+D835","U+DCDC">>, <<"U+D835","U+DCDD">>,
    <<"U+D835","U+DCDE">>, <<"U+D835","U+DCDF">>, <<"U+D835","U+DCE0">>,
    <<"U+D835","U+DCE1">>, <<"U+D835","U+DCE2">>, <<"U+D835","U+DCE3">>,
    <<"U+D835","U+DCE4">>, <<"U+D835","U+DCE5">>, <<"U+D835","U+DCE6">>,
    <<"U+D835","U+DCE7">>, <<"U+D835","U+DCE8">>, <<"U+D835","U+DCE9">>,
    <<"U+D835","U+DCEA">>, <<"U+D835","U+DCEB">>, <<"U+D835","U+DCEC">>,
    <<"U+D835","U+DCED">>, <<"U+D835","U+DCEE">>, <<"U+D835","U+DCEF">>,
    <<"U+D835","U+DCF0">>, <<"U+D835","U+DCF1">>, <<"U+D835","U+DCF2">>,
    <<"U+D835","U+DCF3">>, <<"U+D835","U+DCF4">>, <<"U+D835","U+DCF5">>,
    <<"U+D835","U+DCF6">>, <<"U+D835","U+DCF7">>, <<"U+D835","U+DCF8">>,
    <<"U+D835","U+DCF9">>, <<"U+D835","U+DCFA">>, <<"U+D835","U+DCFB">>,
    <<"U+D835","U+DCFC">>, <<"U+D835","U+DCFD">>, <<"U+D835","U+DCFE">>,
    <<"U+D835","U+DCFF">>, <<"U+D835","U+DD00">>, <<"U+D835","U+DD01">>,
    <<"U+D835","U+DD02">>, <<"U+D835","U+DD03">>, <<"U+D835","U+DD04">>,
    <<"U+D835","U+DD05">>, <<"U+D835","U+DD07">>, <<"U+D835","U+DD08">>,
    <<"U+D835","U+DD09">>, <<"U+D835","U+DD0A">>, <<"U+D835","U+DD0D">>,
    <<"U+D835","U+DD0E">>, <<"U+D835","U+DD0F">>, <<"U+D835","U+DD10">>,
    <<"U+D835","U+DD11">>, <<"U+D835","U+DD12">>, <<"U+D835","U+DD13">>,
    <<"U+D835","U+DD14">>, <<"U+D835","U+DD16">>, <<"U+D835","U+DD17">>,
    <<"U+D835","U+DD18">>, <<"U+D835","U+DD19">>, <<"U+D835","U+DD1A">>,
    <<"U+D835","U+DD1B">>, <<"U+D835","U+DD1C">>, <<"U+D835","U+DD1E">>,
    <<"U+D835","U+DD1F">>, <<"U+D835","U+DD20">>, <<"U+D835","U+DD21">>,
    <<"U+D835","U+DD22">>, <<"U+D835","U+DD23">>, <<"U+D835","U+DD24">>,
    <<"U+D835","U+DD25">>, <<"U+D835","U+DD26">>, <<"U+D835","U+DD27">>,
    <<"U+D835","U+DD28">>, <<"U+D835","U+DD29">>, <<"U+D835","U+DD2A">>,
    <<"U+D835","U+DD2B">>, <<"U+D835","U+DD2C">>, <<"U+D835","U+DD2D">>,
    <<"U+D835","U+DD2E">>, <<"U+D835","U+DD2F">>, <<"U+D835","U+DD30">>,
    <<"U+D835","U+DD31">>, <<"U+D835","U+DD32">>, <<"U+D835","U+DD33">>,
    <<"U+D835","U+DD34">>, <<"U+D835","U+DD35">>, <<"U+D835","U+DD36">>,
    <<"U+D835","U+DD37">>, <<"U+D835","U+DD38">>, <<"U+D835","U+DD39">>,
    <<"U+D835","U+DD3B">>, <<"U+D835","U+DD3C">>, <<"U+D835","U+DD3D">>,
    <<"U+D835","U+DD3E">>, <<"U+D835","U+DD40">>, <<"U+D835","U+DD41">>,
    <<"U+D835","U+DD42">>, <<"U+D835","U+DD43">>, <<"U+D835","U+DD44">>,
    <<"U+D835","U+DD46">>, <<"U+D835","U+DD4A">>, <<"U+D835","U+DD4B">>,
    <<"U+D835","U+DD4C">>, <<"U+D835","U+DD4D">>, <<"U+D835","U+DD4E">>,
    <<"U+D835","U+DD4F">>, <<"U+D835","U+DD50">>, <<"U+D835","U+DD52">>,
    <<"U+D835","U+DD53">>, <<"U+D835","U+DD54">>, <<"U+D835","U+DD55">>,
    <<"U+D835","U+DD56">>, <<"U+D835","U+DD57">>, <<"U+D835","U+DD58">>,
    <<"U+D835","U+DD59">>, <<"U+D835","U+DD5A">>, <<"U+D835","U+DD5B">>,
    <<"U+D835","U+DD5C">>, <<"U+D835","U+DD5D">>, <<"U+D835","U+DD5E">>,
    <<"U+D835","U+DD5F">>, <<"U+D835","U+DD60">>, <<"U+D835","U+DD61">>,
    <<"U+D835","U+DD62">>, <<"U+D835","U+DD63">>, <<"U+D835","U+DD64">>,
    <<"U+D835","U+DD65">>, <<"U+D835","U+DD66">>, <<"U+D835","U+DD67">>,
    <<"U+D835","U+DD68">>, <<"U+D835","U+DD69">>, <<"U+D835","U+DD6A">>,
    <<"U+D835","U+DD6B">>, <<"U+D835","U+DD6C">>, <<"U+D835","U+DD6D">>,
    <<"U+D835","U+DD6E">>, <<"U+D835","U+DD6F">>, <<"U+D835","U+DD70">>,
    <<"U+D835","U+DD71">>, <<"U+D835","U+DD72">>, <<"U+D835","U+DD73">>,
    <<"U+D835","U+DD74">>, <<"U+D835","U+DD75">>, <<"U+D835","U+DD76">>,
    <<"U+D835","U+DD77">>, <<"U+D835","U+DD78">>, <<"U+D835","U+DD79">>,
    <<"U+D835","U+DD7A">>, <<"U+D835","U+DD7B">>, <<"U+D835","U+DD7C">>,
    <<"U+D835","U+DD7D">>, <<"U+D835","U+DD7E">>, <<"U+D835","U+DD7F">>,
    <<"U+D835","U+DD80">>, <<"U+D835","U+DD81">>, <<"U+D835","U+DD82">>,
    <<"U+D835","U+DD83">>, <<"U+D835","U+DD84">>, <<"U+D835","U+DD85">>,
    <<"U+D835","U+DD86">>, <<"U+D835","U+DD87">>, <<"U+D835","U+DD88">>,
    <<"U+D835","U+DD89">>, <<"U+D835","U+DD8A">>, <<"U+D835","U+DD8B">>,
    <<"U+D835","U+DD8C">>, <<"U+D835","U+DD8D">>, <<"U+D835","U+DD8E">>,
    <<"U+D835","U+DD8F">>, <<"U+D835","U+DD90">>, <<"U+D835","U+DD91">>,
    <<"U+D835","U+DD92">>, <<"U+D835","U+DD93">>, <<"U+D835","U+DD94">>,
    <<"U+D835","U+DD95">>, <<"U+D835","U+DD96">>, <<"U+D835","U+DD97">>,
    <<"U+D835","U+DD98">>, <<"U+D835","U+DD99">>, <<"U+D835","U+DD9A">>,
    <<"U+D835","U+DD9B">>, <<"U+D835","U+DD9C">>, <<"U+D835","U+DD9D">>,
    <<"U+D835","U+DD9E">>, <<"U+D835","U+DD9F">>, <<"U+D835","U+DDA0">>,
    <<"U+D835","U+DDA1">>, <<"U+D835","U+DDA2">>, <<"U+D835","U+DDA3">>,
    <<"U+D835","U+DDA4">>, <<"U+D835","U+DDA5">>, <<"U+D835","U+DDA6">>,
    <<"U+D835","U+DDA7">>, <<"U+D835","U+DDA8">>, <<"U+D835","U+DDA9">>,
    <<"U+D835","U+DDAA">>, <<"U+D835","U+DDAB">>, <<"U+D835","U+DDAC">>,
    <<"U+D835","U+DDAD">>, <<"U+D835","U+DDAE">>, <<"U+D835","U+DDAF">>,
    <<"U+D835","U+DDB0">>, <<"U+D835","U+DDB1">>, <<"U+D835","U+DDB2">>,
    <<"U+D835","U+DDB3">>, <<"U+D835","U+DDB4">>, <<"U+D835","U+DDB5">>,
    <<"U+D835","U+DDB6">>, <<"U+D835","U+DDB7">>, <<"U+D835","U+DDB8">>,
    <<"U+D835","U+DDB9">>, <<"U+D835","U+DDBA">>, <<"U+D835","U+DDBB">>,
    <<"U+D835","U+DDBC">>, <<"U+D835","U+DDBD">>, <<"U+D835","U+DDBE">>,
    <<"U+D835","U+DDBF">>, <<"U+D835","U+DDC0">>, <<"U+D835","U+DDC1">>,
    <<"U+D835","U+DDC2">>, <<"U+D835","U+DDC3">>, <<"U+D835","U+DDC4">>,
    <<"U+D835","U+DDC5">>, <<"U+D835","U+DDC6">>, <<"U+D835","U+DDC7">>,
    <<"U+D835","U+DDC8">>, <<"U+D835","U+DDC9">>, <<"U+D835","U+DDCA">>,
    <<"U+D835","U+DDCB">>, <<"U+D835","U+DDCC">>, <<"U+D835","U+DDCD">>,
    <<"U+D835","U+DDCE">>, <<"U+D835","U+DDCF">>, <<"U+D835","U+DDD0">>,
    <<"U+D835","U+DDD1">>, <<"U+D835","U+DDD2">>, <<"U+D835","U+DDD3">>,
    <<"U+D835","U+DDD4">>, <<"U+D835","U+DDD5">>, <<"U+D835","U+DDD6">>,
    <<"U+D835","U+DDD7">>, <<"U+D835","U+DDD8">>, <<"U+D835","U+DDD9">>,
    <<"U+D835","U+DDDA">>, <<"U+D835","U+DDDB">>, <<"U+D835","U+DDDC">>,
    <<"U+D835","U+DDDD">>, <<"U+D835","U+DDDE">>, <<"U+D835","U+DDDF">>,
    <<"U+D835","U+DDE0">>, <<"U+D835","U+DDE1">>, <<"U+D835","U+DDE2">>,
    <<"U+D835","U+DDE3">>, <<"U+D835","U+DDE4">>, <<"U+D835","U+DDE5">>,
    <<"U+D835","U+DDE6">>, <<"U+D835","U+DDE7">>, <<"U+D835","U+DDE8">>,
    <<"U+D835","U+DDE9">>, <<"U+D835","U+DDEA">>, <<"U+D835","U+DDEB">>,
    <<"U+D835","U+DDEC">>, <<"U+D835","U+DDED">>, <<"U+D835","U+DDEE">>,
    <<"U+D835","U+DDEF">>, <<"U+D835","U+DDF0">>, <<"U+D835","U+DDF1">>,
    <<"U+D835","U+DDF2">>, <<"U+D835","U+DDF3">>, <<"U+D835","U+DDF4">>,
    <<"U+D835","U+DDF5">>, <<"U+D835","U+DDF6">>, <<"U+D835","U+DDF7">>,
    <<"U+D835","U+DDF8">>, <<"U+D835","U+DDF9">>, <<"U+D835","U+DDFA">>,
    <<"U+D835","U+DDFB">>, <<"U+D835","U+DDFC">>, <<"U+D835","U+DDFD">>,
    <<"U+D835","U+DDFE">>, <<"U+D835","U+DDFF">>, <<"U+D835","U+DE00">>,
    <<"U+D835","U+DE01">>, <<"U+D835","U+DE02">>, <<"U+D835","U+DE03">>,
    <<"U+D835","U+DE04">>, <<"U+D835","U+DE05">>, <<"U+D835","U+DE06">>,
    <<"U+D835","U+DE07">>, <<"U+D835","U+DE08">>, <<"U+D835","U+DE09">>,
    <<"U+D835","U+DE0A">>, <<"U+D835","U+DE0B">>, <<"U+D835","U+DE0C">>,
    <<"U+D835","U+DE0D">>, <<"U+D835","U+DE0E">>, <<"U+D835","U+DE0F">>,
    <<"U+D835","U+DE10">>, <<"U+D835","U+DE11">>, <<"U+D835","U+DE12">>,
    <<"U+D835","U+DE13">>, <<"U+D835","U+DE14">>, <<"U+D835","U+DE15">>,
    <<"U+D835","U+DE16">>, <<"U+D835","U+DE17">>, <<"U+D835","U+DE18">>,
    <<"U+D835","U+DE19">>, <<"U+D835","U+DE1A">>, <<"U+D835","U+DE1B">>,
    <<"U+D835","U+DE1C">>, <<"U+D835","U+DE1D">>, <<"U+D835","U+DE1E">>,
    <<"U+D835","U+DE1F">>, <<"U+D835","U+DE20">>, <<"U+D835","U+DE21">>,
    <<"U+D835","U+DE22">>, <<"U+D835","U+DE23">>, <<"U+D835","U+DE24">>,
    <<"U+D835","U+DE25">>, <<"U+D835","U+DE26">>, <<"U+D835","U+DE27">>,
    <<"U+D835","U+DE28">>, <<"U+D835","U+DE29">>, <<"U+D835","U+DE2A">>,
    <<"U+D835","U+DE2B">>, <<"U+D835","U+DE2C">>, <<"U+D835","U+DE2D">>,
    <<"U+D835","U+DE2E">>, <<"U+D835","U+DE2F">>, <<"U+D835","U+DE30">>,
    <<"U+D835","U+DE31">>, <<"U+D835","U+DE32">>, <<"U+D835","U+DE33">>,
    <<"U+D835","U+DE34">>, <<"U+D835","U+DE35">>, <<"U+D835","U+DE36">>,
    <<"U+D835","U+DE37">>, <<"U+D835","U+DE38">>, <<"U+D835","U+DE39">>,
    <<"U+D835","U+DE3A">>, <<"U+D835","U+DE3B">>, <<"U+D835","U+DE3C">>,
    <<"U+D835","U+DE3D">>, <<"U+D835","U+DE3E">>, <<"U+D835","U+DE3F">>,
    <<"U+D835","U+DE40">>, <<"U+D835","U+DE41">>, <<"U+D835","U+DE42">>,
    <<"U+D835","U+DE43">>, <<"U+D835","U+DE44">>, <<"U+D835","U+DE45">>,
    <<"U+D835","U+DE46">>, <<"U+D835","U+DE47">>, <<"U+D835","U+DE48">>,
    <<"U+D835","U+DE49">>, <<"U+D835","U+DE4A">>, <<"U+D835","U+DE4B">>,
    <<"U+D835","U+DE4C">>, <<"U+D835","U+DE4D">>, <<"U+D835","U+DE4E">>,
    <<"U+D835","U+DE4F">>, <<"U+D835","U+DE50">>, <<"U+D835","U+DE51">>,
    <<"U+D835","U+DE52">>, <<"U+D835","U+DE53">>, <<"U+D835","U+DE54">>,
    <<"U+D835","U+DE55">>, <<"U+D835","U+DE56">>, <<"U+D835","U+DE57">>,
    <<"U+D835","U+DE58">>, <<"U+D835","U+DE59">>, <<"U+D835","U+DE5A">>,
    <<"U+D835","U+DE5B">>, <<"U+D835","U+DE5C">>, <<"U+D835","U+DE5D">>,
    <<"U+D835","U+DE5E">>, <<"U+D835","U+DE5F">>, <<"U+D835","U+DE60">>,
    <<"U+D835","U+DE61">>, <<"U+D835","U+DE62">>, <<"U+D835","U+DE63">>,
    <<"U+D835","U+DE64">>, <<"U+D835","U+DE65">>, <<"U+D835","U+DE66">>,
    <<"U+D835","U+DE67">>, <<"U+D835","U+DE68">>, <<"U+D835","U+DE69">>,
    <<"U+D835","U+DE6A">>, <<"U+D835","U+DE6B">>, <<"U+D835","U+DE6C">>,
    <<"U+D835","U+DE6D">>, <<"U+D835","U+DE6E">>, <<"U+D835","U+DE6F">>,
    <<"U+D835","U+DE70">>, <<"U+D835","U+DE71">>, <<"U+D835","U+DE72">>,
    <<"U+D835","U+DE73">>, <<"U+D835","U+DE74">>, <<"U+D835","U+DE75">>,
    <<"U+D835","U+DE76">>, <<"U+D835","U+DE77">>, <<"U+D835","U+DE78">>,
    <<"U+D835","U+DE79">>, <<"U+D835","U+DE7A">>, <<"U+D835","U+DE7B">>,
    <<"U+D835","U+DE7C">>, <<"U+D835","U+DE7D">>, <<"U+D835","U+DE7E">>,
    <<"U+D835","U+DE7F">>, <<"U+D835","U+DE80">>, <<"U+D835","U+DE81">>,
    <<"U+D835","U+DE82">>, <<"U+D835","U+DE83">>, <<"U+D835","U+DE84">>,
    <<"U+D835","U+DE85">>, <<"U+D835","U+DE86">>, <<"U+D835","U+DE87">>,
    <<"U+D835","U+DE88">>, <<"U+D835","U+DE89">>, <<"U+D835","U+DE8A">>,
    <<"U+D835","U+DE8B">>, <<"U+D835","U+DE8C">>, <<"U+D835","U+DE8D">>,
    <<"U+D835","U+DE8E">>, <<"U+D835","U+DE8F">>, <<"U+D835","U+DE90">>,
    <<"U+D835","U+DE91">>, <<"U+D835","U+DE92">>, <<"U+D835","U+DE93">>,
    <<"U+D835","U+DE94">>, <<"U+D835","U+DE95">>, <<"U+D835","U+DE96">>,
    <<"U+D835","U+DE97">>, <<"U+D835","U+DE98">>, <<"U+D835","U+DE99">>,
    <<"U+D835","U+DE9A">>, <<"U+D835","U+DE9B">>, <<"U+D835","U+DE9C">>,
    <<"U+D835","U+DE9D">>, <<"U+D835","U+DE9E">>, <<"U+D835","U+DE9F">>,
    <<"U+D835","U+DEA0">>, <<"U+D835","U+DEA1">>, <<"U+D835","U+DEA2">>,
    <<"U+D835","U+DEA3">>, <<"U+D835","U+DEA4">>, <<"U+D835","U+DEA5">>,
    <<"U+D835","U+DEA8">>, <<"U+D835","U+DEA9">>, <<"U+D835","U+DEAA">>,
    <<"U+D835","U+DEAB">>, <<"U+D835","U+DEAC">>, <<"U+D835","U+DEAD">>,
    <<"U+D835","U+DEAE">>, <<"U+D835","U+DEAF">>, <<"U+D835","U+DEB0">>,
    <<"U+D835","U+DEB1">>, <<"U+D835","U+DEB2">>, <<"U+D835","U+DEB3">>,
    <<"U+D835","U+DEB4">>, <<"U+D835","U+DEB5">>, <<"U+D835","U+DEB6">>,
    <<"U+D835","U+DEB7">>, <<"U+D835","U+DEB8">>, <<"U+D835","U+DEB9">>,
    <<"U+D835","U+DEBA">>, <<"U+D835","U+DEBB">>, <<"U+D835","U+DEBC">>,
    <<"U+D835","U+DEBD">>, <<"U+D835","U+DEBE">>, <<"U+D835","U+DEBF">>,
    <<"U+D835","U+DEC0">>, <<"U+D835","U+DEC2">>, <<"U+D835","U+DEC3">>,
    <<"U+D835","U+DEC4">>, <<"U+D835","U+DEC5">>, <<"U+D835","U+DEC6">>,
    <<"U+D835","U+DEC7">>, <<"U+D835","U+DEC8">>, <<"U+D835","U+DEC9">>,
    <<"U+D835","U+DECA">>, <<"U+D835","U+DECB">>, <<"U+D835","U+DECC">>,
    <<"U+D835","U+DECD">>, <<"U+D835","U+DECE">>, <<"U+D835","U+DECF">>,
    <<"U+D835","U+DED0">>, <<"U+D835","U+DED1">>, <<"U+D835","U+DED2">>,
    <<"U+D835","U+DED3">>, <<"U+D835","U+DED4">>, <<"U+D835","U+DED5">>,
    <<"U+D835","U+DED6">>, <<"U+D835","U+DED7">>, <<"U+D835","U+DED8">>,
    <<"U+D835","U+DED9">>, <<"U+D835","U+DEDA">>, <<"U+D835","U+DEDC">>,
    <<"U+D835","U+DEDD">>, <<"U+D835","U+DEDE">>, <<"U+D835","U+DEDF">>,
    <<"U+D835","U+DEE0">>, <<"U+D835","U+DEE1">>, <<"U+D835","U+DEE2">>,
    <<"U+D835","U+DEE3">>, <<"U+D835","U+DEE4">>, <<"U+D835","U+DEE5">>,
    <<"U+D835","U+DEE6">>, <<"U+D835","U+DEE7">>, <<"U+D835","U+DEE8">>,
    <<"U+D835","U+DEE9">>, <<"U+D835","U+DEEA">>, <<"U+D835","U+DEEB">>,
    <<"U+D835","U+DEEC">>, <<"U+D835","U+DEED">>, <<"U+D835","U+DEEE">>,
    <<"U+D835","U+DEEF">>, <<"U+D835","U+DEF0">>, <<"U+D835","U+DEF1">>,
    <<"U+D835","U+DEF2">>, <<"U+D835","U+DEF3">>, <<"U+D835","U+DEF4">>,
    <<"U+D835","U+DEF5">>, <<"U+D835","U+DEF6">>, <<"U+D835","U+DEF7">>,
    <<"U+D835","U+DEF8">>, <<"U+D835","U+DEF9">>, <<"U+D835","U+DEFA">>,
    <<"U+D835","U+DEFC">>, <<"U+D835","U+DEFD">>, <<"U+D835","U+DEFE">>,
    <<"U+D835","U+DEFF">>, <<"U+D835","U+DF00">>, <<"U+D835","U+DF01">>,
    <<"U+D835","U+DF02">>, <<"U+D835","U+DF03">>, <<"U+D835","U+DF04">>,
    <<"U+D835","U+DF05">>, <<"U+D835","U+DF06">>, <<"U+D835","U+DF07">>,
    <<"U+D835","U+DF08">>, <<"U+D835","U+DF09">>, <<"U+D835","U+DF0A">>,
    <<"U+D835","U+DF0B">>, <<"U+D835","U+DF0C">>, <<"U+D835","U+DF0D">>,
    <<"U+D835","U+DF0E">>, <<"U+D835","U+DF0F">>, <<"U+D835","U+DF10">>,
    <<"U+D835","U+DF11">>, <<"U+D835","U+DF12">>, <<"U+D835","U+DF13">>,
    <<"U+D835","U+DF14">>, <<"U+D835","U+DF16">>, <<"U+D835","U+DF17">>,
    <<"U+D835","U+DF18">>, <<"U+D835","U+DF19">>, <<"U+D835","U+DF1A">>,
    <<"U+D835","U+DF1B">>, <<"U+D835","U+DF1C">>, <<"U+D835","U+DF1D">>,
    <<"U+D835","U+DF1E">>, <<"U+D835","U+DF1F">>, <<"U+D835","U+DF20">>,
    <<"U+D835","U+DF21">>, <<"U+D835","U+DF22">>, <<"U+D835","U+DF23">>,
    <<"U+D835","U+DF24">>, <<"U+D835","U+DF25">>, <<"U+D835","U+DF26">>,
    <<"U+D835","U+DF27">>, <<"U+D835","U+DF28">>, <<"U+D835","U+DF29">>,
    <<"U+D835","U+DF2A">>, <<"U+D835","U+DF2B">>, <<"U+D835","U+DF2C">>,
    <<"U+D835","U+DF2D">>, <<"U+D835","U+DF2E">>, <<"U+D835","U+DF2F">>,
    <<"U+D835","U+DF30">>, <<"U+D835","U+DF31">>, <<"U+D835","U+DF32">>,
    <<"U+D835","U+DF33">>, <<"U+D835","U+DF34">>, <<"U+D835","U+DF36">>,
    <<"U+D835","U+DF37">>, <<"U+D835","U+DF38">>, <<"U+D835","U+DF39">>,
    <<"U+D835","U+DF3A">>, <<"U+D835","U+DF3B">>, <<"U+D835","U+DF3C">>,
    <<"U+D835","U+DF3D">>, <<"U+D835","U+DF3E">>, <<"U+D835","U+DF3F">>,
    <<"U+D835","U+DF40">>, <<"U+D835","U+DF41">>, <<"U+D835","U+DF42">>,
    <<"U+D835","U+DF43">>, <<"U+D835","U+DF44">>, <<"U+D835","U+DF45">>,
    <<"U+D835","U+DF46">>, <<"U+D835","U+DF47">>, <<"U+D835","U+DF48">>,
    <<"U+D835","U+DF49">>, <<"U+D835","U+DF4A">>, <<"U+D835","U+DF4B">>,
    <<"U+D835","U+DF4C">>, <<"U+D835","U+DF4D">>, <<"U+D835","U+DF4E">>,
    <<"U+D835","U+DF50">>, <<"U+D835","U+DF51">>, <<"U+D835","U+DF52">>,
    <<"U+D835","U+DF53">>, <<"U+D835","U+DF54">>, <<"U+D835","U+DF55">>,
    <<"U+D835","U+DF56">>, <<"U+D835","U+DF57">>, <<"U+D835","U+DF58">>,
    <<"U+D835","U+DF59">>, <<"U+D835","U+DF5A">>, <<"U+D835","U+DF5B">>,
    <<"U+D835","U+DF5C">>, <<"U+D835","U+DF5D">>, <<"U+D835","U+DF5E">>,
    <<"U+D835","U+DF5F">>, <<"U+D835","U+DF60">>, <<"U+D835","U+DF61">>,
    <<"U+D835","U+DF62">>, <<"U+D835","U+DF63">>, <<"U+D835","U+DF64">>,
    <<"U+D835","U+DF65">>, <<"U+D835","U+DF66">>, <<"U+D835","U+DF67">>,
    <<"U+D835","U+DF68">>, <<"U+D835","U+DF69">>, <<"U+D835","U+DF6A">>,
    <<"U+D835","U+DF6B">>, <<"U+D835","U+DF6C">>, <<"U+D835","U+DF6D">>,
    <<"U+D835","U+DF6E">>, <<"U+D835","U+DF70">>, <<"U+D835","U+DF71">>,
    <<"U+D835","U+DF72">>, <<"U+D835","U+DF73">>, <<"U+D835","U+DF74">>,
    <<"U+D835","U+DF75">>, <<"U+D835","U+DF76">>, <<"U+D835","U+DF77">>,
    <<"U+D835","U+DF78">>, <<"U+D835","U+DF79">>, <<"U+D835","U+DF7A">>,
    <<"U+D835","U+DF7B">>, <<"U+D835","U+DF7C">>, <<"U+D835","U+DF7D">>,
    <<"U+D835","U+DF7E">>, <<"U+D835","U+DF7F">>, <<"U+D835","U+DF80">>,
    <<"U+D835","U+DF81">>, <<"U+D835","U+DF82">>, <<"U+D835","U+DF83">>,
    <<"U+D835","U+DF84">>, <<"U+D835","U+DF85">>, <<"U+D835","U+DF86">>,
    <<"U+D835","U+DF87">>, <<"U+D835","U+DF88">>, <<"U+D835","U+DF8A">>,
    <<"U+D835","U+DF8B">>, <<"U+D835","U+DF8C">>, <<"U+D835","U+DF8D">>,
    <<"U+D835","U+DF8E">>, <<"U+D835","U+DF8F">>, <<"U+D835","U+DF90">>,
    <<"U+D835","U+DF91">>, <<"U+D835","U+DF92">>, <<"U+D835","U+DF93">>,
    <<"U+D835","U+DF94">>, <<"U+D835","U+DF95">>, <<"U+D835","U+DF96">>,
    <<"U+D835","U+DF97">>, <<"U+D835","U+DF98">>, <<"U+D835","U+DF99">>,
    <<"U+D835","U+DF9A">>, <<"U+D835","U+DF9B">>, <<"U+D835","U+DF9C">>,
    <<"U+D835","U+DF9D">>, <<"U+D835","U+DF9E">>, <<"U+D835","U+DF9F">>,
    <<"U+D835","U+DFA0">>, <<"U+D835","U+DFA1">>, <<"U+D835","U+DFA2">>,
    <<"U+D835","U+DFA3">>, <<"U+D835","U+DFA4">>, <<"U+D835","U+DFA5">>,
    <<"U+D835","U+DFA6">>, <<"U+D835","U+DFA7">>, <<"U+D835","U+DFA8">>,
    <<"U+D835","U+DFAA">>, <<"U+D835","U+DFAB">>, <<"U+D835","U+DFAC">>,
    <<"U+D835","U+DFAD">>, <<"U+D835","U+DFAE">>, <<"U+D835","U+DFAF">>,
    <<"U+D835","U+DFB0">>, <<"U+D835","U+DFB1">>, <<"U+D835","U+DFB2">>,
    <<"U+D835","U+DFB3">>, <<"U+D835","U+DFB4">>, <<"U+D835","U+DFB5">>,
    <<"U+D835","U+DFB6">>, <<"U+D835","U+DFB7">>, <<"U+D835","U+DFB8">>,
    <<"U+D835","U+DFB9">>, <<"U+D835","U+DFBA">>, <<"U+D835","U+DFBB">>,
    <<"U+D835","U+DFBC">>, <<"U+D835","U+DFBD">>, <<"U+D835","U+DFBE">>,
    <<"U+D835","U+DFBF">>, <<"U+D835","U+DFC0">>, <<"U+D835","U+DFC1">>,
    <<"U+D835","U+DFC2">>, <<"U+D835","U+DFC4">>, <<"U+D835","U+DFC5">>,
    <<"U+D835","U+DFC6">>, <<"U+D835","U+DFC7">>, <<"U+D835","U+DFC8">>,
    <<"U+D835","U+DFC9">>, <<"U+D835","U+DFCA">>, <<"U+D835","U+DFCB">>,
    <<"U+D837","U+DF00">>, <<"U+D837","U+DF01">>, <<"U+D837","U+DF02">>,
    <<"U+D837","U+DF03">>, <<"U+D837","U+DF04">>, <<"U+D837","U+DF05">>,
    <<"U+D837","U+DF06">>, <<"U+D837","U+DF07">>, <<"U+D837","U+DF08">>,
    <<"U+D837","U+DF09">>, <<"U+D837","U+DF0B">>, <<"U+D837","U+DF0C">>,
    <<"U+D837","U+DF0D">>, <<"U+D837","U+DF0E">>, <<"U+D837","U+DF0F">>,
    <<"U+D837","U+DF10">>, <<"U+D837","U+DF11">>, <<"U+D837","U+DF12">>,
    <<"U+D837","U+DF13">>, <<"U+D837","U+DF14">>, <<"U+D837","U+DF15">>,
    <<"U+D837","U+DF16">>, <<"U+D837","U+DF17">>, <<"U+D837","U+DF18">>,
    <<"U+D837","U+DF19">>, <<"U+D837","U+DF1A">>, <<"U+D837","U+DF1B">>,
    <<"U+D837","U+DF1C">>, <<"U+D837","U+DF1D">>, <<"U+D837","U+DF1E">>,
    <<"U+D837","U+DF25">>, <<"U+D837","U+DF26">>, <<"U+D837","U+DF27">>,
    <<"U+D837","U+DF28">>, <<"U+D837","U+DF29">>, <<"U+D837","U+DF2A">>,
    <<"U+D83A","U+DD00">>, <<"U+D83A","U+DD01">>, <<"U+D83A","U+DD02">>,
    <<"U+D83A","U+DD03">>, <<"U+D83A","U+DD04">>, <<"U+D83A","U+DD05">>,
    <<"U+D83A","U+DD06">>, <<"U+D83A","U+DD07">>, <<"U+D83A","U+DD08">>,
    <<"U+D83A","U+DD09">>, <<"U+D83A","U+DD0A">>, <<"U+D83A","U+DD0B">>,
    <<"U+D83A","U+DD0C">>, <<"U+D83A","U+DD0D">>, <<"U+D83A","U+DD0E">>,
    <<"U+D83A","U+DD0F">>, <<"U+D83A","U+DD10">>, <<"U+D83A","U+DD11">>,
    <<"U+D83A","U+DD12">>, <<"U+D83A","U+DD13">>, <<"U+D83A","U+DD14">>,
    <<"U+D83A","U+DD15">>, <<"U+D83A","U+DD16">>, <<"U+D83A","U+DD17">>,
    <<"U+D83A","U+DD18">>, <<"U+D83A","U+DD19">>, <<"U+D83A","U+DD1A">>,
    <<"U+D83A","U+DD1B">>, <<"U+D83A","U+DD1C">>, <<"U+D83A","U+DD1D">>,
    <<"U+D83A","U+DD1E">>, <<"U+D83A","U+DD1F">>, <<"U+D83A","U+DD20">>,
    <<"U+D83A","U+DD21">>, <<"U+D83A","U+DD22">>, <<"U+D83A","U+DD23">>,
    <<"U+D83A","U+DD24">>, <<"U+D83A","U+DD25">>, <<"U+D83A","U+DD26">>,
    <<"U+D83A","U+DD27">>, <<"U+D83A","U+DD28">>, <<"U+D83A","U+DD29">>,
    <<"U+D83A","U+DD2A">>, <<"U+D83A","U+DD2B">>, <<"U+D83A","U+DD2C">>,
    <<"U+D83A","U+DD2D">>, <<"U+D83A","U+DD2E">>, <<"U+D83A","U+DD2F">>,
    <<"U+D83A","U+DD30">>, <<"U+D83A","U+DD31">>, <<"U+D83A","U+DD32">>,
    <<"U+D83A","U+DD33">>, <<"U+D83A","U+DD34">>, <<"U+D83A","U+DD35">>,
    <<"U+D83A","U+DD36">>, <<"U+D83A","U+DD37">>, <<"U+D83A","U+DD38">>,
    <<"U+D83A","U+DD39">>, <<"U+D83A","U+DD3A">>, <<"U+D83A","U+DD3B">>,
    <<"U+D83A","U+DD3C">>, <<"U+D83A","U+DD3D">>, <<"U+D83A","U+DD3E">>,
    <<"U+D83A","U+DD3F">>, <<"U+D83A","U+DD40">>, <<"U+D83A","U+DD41">>,
    <<"U+D83A","U+DD42">>, <<"U+D83A","U+DD43">>, <<"U+D83C","U+DD30">>,
    <<"U+D83C","U+DD31">>, <<"U+D83C","U+DD32">>, <<"U+D83C","U+DD33">>,
    <<"U+D83C","U+DD34">>, <<"U+D83C","U+DD35">>, <<"U+D83C","U+DD36">>,
    <<"U+D83C","U+DD37">>, <<"U+D83C","U+DD38">>, <<"U+D83C","U+DD39">>,
    <<"U+D83C","U+DD3A">>, <<"U+D83C","U+DD3B">>, <<"U+D83C","U+DD3C">>,
    <<"U+D83C","U+DD3D">>, <<"U+D83C","U+DD3E">>, <<"U+D83C","U+DD3F">>,
    <<"U+D83C","U+DD40">>, <<"U+D83C","U+DD41">>, <<"U+D83C","U+DD42">>,
    <<"U+D83C","U+DD43">>, <<"U+D83C","U+DD44">>, <<"U+D83C","U+DD45">>,
    <<"U+D83C","U+DD46">>, <<"U+D83C","U+DD47">>, <<"U+D83C","U+DD48">>,
    <<"U+D83C","U+DD49">>, <<"U+D83C","U+DD50">>, <<"U+D83C","U+DD51">>,
    <<"U+D83C","U+DD52">>, <<"U+D83C","U+DD53">>, <<"U+D83C","U+DD54">>,
    <<"U+D83C","U+DD55">>, <<"U+D83C","U+DD56">>, <<"U+D83C","U+DD57">>,
    <<"U+D83C","U+DD58">>, <<"U+D83C","U+DD59">>, <<"U+D83C","U+DD5A">>,
    <<"U+D83C","U+DD5B">>, <<"U+D83C","U+DD5C">>, <<"U+D83C","U+DD5D">>,
    <<"U+D83C","U+DD5E">>, <<"U+D83C","U+DD5F">>, <<"U+D83C","U+DD60">>,
    <<"U+D83C","U+DD61">>, <<"U+D83C","U+DD62">>, <<"U+D83C","U+DD63">>,
    <<"U+D83C","U+DD64">>, <<"U+D83C","U+DD65">>, <<"U+D83C","U+DD66">>,
    <<"U+D83C","U+DD67">>, <<"U+D83C","U+DD68">>, <<"U+D83C","U+DD69">>,
    <<"U+D83C","U+DD70">>, <<"U+D83C","U+DD71">>, <<"U+D83C","U+DD72">>,
    <<"U+D83C","U+DD73">>, <<"U+D83C","U+DD74">>, <<"U+D83C","U+DD75">>,
    <<"U+D83C","U+DD76">>, <<"U+D83C","U+DD77">>, <<"U+D83C","U+DD78">>,
    <<"U+D83C","U+DD79">>, <<"U+D83C","U+DD7A">>, <<"U+D83C","U+DD7B">>,
    <<"U+D83C","U+DD7C">>, <<"U+D83C","U+DD7D">>, <<"U+D83C","U+DD7E">>,
    <<"U+D83C","U+DD7F">>, <<"U+D83C","U+DD80">>, <<"U+D83C","U+DD81">>,
    <<"U+D83C","U+DD82">>, <<"U+D83C","U+DD83">>, <<"U+D83C","U+DD84">>,
    <<"U+D83C","U+DD85">>, <<"U+D83C","U+DD86">>, <<"U+D83C","U+DD87">>,
    <<"U+D83C","U+DD88">>, <<"U+D83C","U+DD89">>}

CASE_IGNORABLE ==
  {"'", ".", ":", "^", "U+0060", "U+00A8", "U+00AD", "U+00AF", "U+00B4",
    "U+00B7", "U+00B8", "U+02B0", "U+02B1", "U+02B2", "U+02B3", "U+02B4",
    "U+02B5", "U+02B6", "U+02B7", "U+02B8", "U+02B9", "U+02BA", "U+02BB",
    "U+02BC", "U+02BD", "U+02BE", "U+02BF", "U+02C0", "U+02C1", "U+02C2",
    "U+02C3", "U+02C4", "U+02C5", "U+02C6", "U+02C7", "U+02C8", "U+02C9",
    "U+02CA", "U+02CB", "U+02CC", "U+02CD", "U+02CE", "U+02CF", "U+02D0",
    "U+02D1", "U+02D2", "U+02D3", "U+02D4", "U+02D5", "U+02D6", "U+02D7",
    "U+02D8", "U+02D9", "U+02DA", "U+02DB", "U+02DC", "U+02DD", "U+02DE",
    "U+02DF", "U+02E0", "U+02E1", "U+02E2", "U+02E3", "U+02E4", "U+02E5",
    "U+02E6", "U+02E7", "U+02E8", "U+02E9", "U+02EA", "U+02EB", "U+02EC",
    "U+02ED", "U+02EE", "U+02EF", "U+02F0", "U+02F1", "U+02F2", "U+02F3",
    "U+02F4", "U+02F5", "U+02F6", "U+02F7", "U+02F8", "U+02F9", "U+02FA",
    "U+02FB", "U+02FC", "U+02FD", "U+02FE", "U+02FF", "U+0300", "U+0301",
    "U+0302", "U+0303", "U+0304", "U+0305", "U+0306", "U+0307", "U+0308",
    "U+0309", "U+030A", "U+030B", "U+030C", "U+030D", "U+030E", "U+030F",
    "U+0310", "U+0311", "U+0312", "U+0313", "U+0314", "U+0315", "U+0316",
    "U+0317", "U+0318", "U+0319", "U+031A", "U+031B", "U+031C", "U+031D",
    "U+031E", "U+031F", "U+0320", "U+0321", "U+0322", "U+0323", "U+0324",
    "U+0325", "U+0326", "U+0327", "U+0328", "U+0329", "U+032A", "U+032B",
    "U+032C", "U+032D", "U+032E", "U+032F", "U+0330", "U+0331", "U+0332",
    "U+0333", "U+0334", "U+0335", "U+0336", "U+0337", "U+0338", "U+0339",
    "U+033A", "U+033B", "U+033C", "U+033D", "U+033E", "U+033F", "U+0340",
    "U+0341", "U+0342", "U+0343", "U+0344", "U+0345", "U+0346", "U+0347",
    "U+0348", "U+0349", "U+034A", "U+034B", "U+034C", "U+034D", "U+034E",
    "U+034F", "U+0350", "U+0351", "U+0352", "U+0353", "U+0354", "U+0355",
    "U+0356", "U+0357", "U+0358", "U+0359", "U+035A", "U+035B", "U+035C",
    "U+035D", "U+035E", "U+035F", "U+0360", "U+0361", "U+0362", "U+0363",
    "U+0364", "U+0365", "U+0366", "U+0367", "U+0368", "U+0369", "U+036A",
    "U+036B", "U+036C", "U+036D", "U+036E", "U+036F", "U+0374", "U+0375",
    "U+037A", "U+0384", "U+0385", "U+0387", "U+0483", "U+0484", "U+0485",
    "U+0486", "U+0487", "U+0488", "U+0489", "U+0559", "U+055F", "U+0591",
    "U+0592", "U+0593", "U+0594", "U+0595", "U+0596", "U+0597", "U+0598",
    "U+0599", "U+059A", "U+059B", "U+059C", "U+059D", "U+059E", "U+059F",
    "U+05A0", "U+05A1", "U+05A2", "U+05A3", "U+05A4", "U+05A5", "U+05A6",
    "U+05A7", "U+05A8", "U+05A9", "U+05AA", "U+05AB", "U+05AC", "U+05AD",
    "U+05AE", "U+05AF", "U+05B0", "U+05B1", "U+05B2", "U+05B3", "U+05B4",
    "U+05B5", "U+05B6", "U+05B7", "U+05B8", "U+05B9", "U+05BA", "U+05BB",
    "U+05BC", "U+05BD", "U+05BF", "U+05C1", "U+05C2", "U+05C4", "U+05C5",
    "U+05C7", "U+05F4", "U+0600", "U+0601", "U+0602", "U+0603", "U+0604",
    "U+0605", "U+0610", "U+0611", "U+0612", "U+0613", "U+0614", "U+0615",
    "U+0616", "U+0617", "U+0618", "U+0619", "U+061A", "U+061C", "U+0640",
    "U+064B", "U+064C", "U+064D", "U+064E", "U+064F", "U+0650", "U+0651",
    "U+0652", "U+0653", "U+0654", "U+0655", "U+0656", "U+0657", "U+0658",
    "U+0659", "U+065A", "U+065B", "U+065C", "U+065D", "U+065E", "U+065F",
    "U+0670", "U+06D6", "U+06D7", "U+06D8", "U+06D9", "U+06DA", "U+06DB",
    "U+06DC", "U+06DD", "U+06DF", "U+06E0", "U+06E1", "U+06E2", "U+06E3",
    "U+06E4", "U+06E5", "U+06E6", "U+06E7", "U+06E8", "U+06EA", "U+06EB",
    "U+06EC", "U+06ED", "U+070F", "U+0711", "U+0730", "U+0731", "U+0732",
    "U+0733", "U+0734", "U+0735", "U+0736", "U+0737", "U+0738", "U+0739",
    "U+073A", "U+073B", "U+073C", "U+073D", "U+073E", "U+073F", "U+0740",
    "U+0741", "U+0742", "U+0743", "U+0744", "U+0745", "U+0746", "U+0747",
    "U+0748", "U+0749", "U+074A", "U+07A6", "U+07A7", "U+07A8", "U+07A9",
    "U+07AA", "U+07AB", "U+07AC", "U+07AD", "U+07AE", "U+07AF", "U+07B0",
    "U+07EB", "U+07EC", "U+07ED", "U+07EE", "U+07EF", "U+07F0", "U+07F1",
    "U+07F2", "U+07F3", "U+07F4", "U+07F5", "U+07FA", "U+07FD", "U+0816",
    "U+0817", "U+0818", "U+0819", "U+081A", "U+081B", "U+081C", "U+081D",
    "U+081E", "U+081F", "U+0820", "U+0821", "U+0822", "U+0823", "U+0824",
    "U+0825", "U+0826", "U+0827", "U+0828", "U+0829", "U+082A", "U+082B",
    "U+082C", "U+082D", "U+0859", "U+085A", "U+085B", "U+0888", "U+0890",
    "U+0891", "U+0897", "U+0898", "U+0899", "U+089A", "U+089B", "U+089C",
    "U+089D", "U+089E", "U+089F", "U+08C9", "U+08CA", "U+08CB", "U+08CC",
    "U+08CD", "U+08CE", "U+08CF", "U+08D0", "U+08D1", "U+08D2", "U+08D3",
    "U+08D4", "U+08D5", "U+08D6", "U+08D7", "U+08D8", "U+08D9", "U+08DA",
    "U+08DB", "U+08DC", "U+08DD", "U+08DE", "U+08DF", "U+08E0", "U+08E1",
    "U+08E2", "U+08E3", "U+08E4", "U+08E5", "U+08E6", "U+08E7", "U+08E8",
    "U+08E9", "U+08EA", "U+08EB", "U+08EC", "U+08ED", "U+08EE", "U+08EF",
    "U+08F0", "U+08F1", "U+08F2", "U+08F3", "U+08F4", "U+08F5", "U+08F6",
    "U+08F7", "U+08F8", "U+08F9", "U+08FA", "U+08FB", "U+08FC", "U+08FD",
    "U+08FE", "U+08FF", "U+0900", "U+0901", "U+0902", "U+093A", "U+093C",
    "U+0941", "U+0942", "U+0943", "U+0944", "U+0945", "U+0946", "U+0947",
    "U+0948", "U+094D", "U+0951", "U+0952", "U+0953", "U+0954", "U+0955",
    "U+0956", "U+0957", "U+0962", "U+0963", "U+0971", "U+0981", "U+09BC",
    "U+09C1", "U+09C2", "U+09C3", "U+09C4", "U+09CD", "U+09E2", "U+09E3",
    "U+09FE", "U+0A01", "U+0A02", "U+0A3C", "U+0A41", "U+0A42", "U+0A47",
    "U+0A48", "U+0A4B", "U+0A4C", "U+0A4D", "U+0A51", "U+0A70", "U+0A71",
    "U+0A75", "U+0A81", "U+0A82", "U+0ABC", "U+0AC1", "U+0AC2", "U+0AC3",
    "U+0AC4", "U+0AC5", "U+0AC7", "U+0AC8", "U+0ACD", "U+0AE2", "U+0AE3",
    "U+0AFA", "U+0AFB", "U+0AFC", "U+0AFD", "U+0AFE", "U+0AFF", "U+0B01",
    "U+0B3C", "U+0B3F", "U+0B41", "U+0B42", "U+0B43", "U+0B44", "U+0B4D",
    "U+0B55", "U+0B56", "U+0B62", "U+0B63", "U+0B82", "U+0BC0", "U+0BCD",
    "U+0C00", "U+0C04", "U+0C3C", "U+0C3E", "U+0C3F", "U+0C40", "U+0C46",
    "U+0C47", "U+0C48", "U+0C4A", "U+0C4B", "U+0C4C", "U+0C4D", "U+0C55",
    "U+0C56", "U+0C62", "U+0C63", "U+0C81", "U+0CBC", "U+0CBF", "U+0CC6",
    "U+0CCC", "U+0CCD", "U+0CE2", "U+0CE3", "U+0D00", "U+0D01", "U+0D3B",
    "U+0D3C", "U+0D41", "U+0D42", "U+0D43", "U+0D44", "U+0D4D", "U+0D62",
    "U+0D63", "U+0D81", "U+0DCA", "U+0DD2", "U+0DD3", "U+0DD4", "U+0DD6",
    "U+0E31", "U+0E34", "U+0E35", "U+0E36", "U+0E37", "U+0E38", "U+0E39",
    "U+0E3A", "U+0E46", "U+0E47", "U+0E48", "U+0E49", "U+0E4A", "U+0E4B",
    "U+0E4C", "U+0E4D", "U+0E4E", "U+0EB1", "U+0EB4", "U+0EB5", "U+0EB6",
    "U+0EB7", "U+0EB8", "U+0EB9", "U+0EBA", "U+0EBB", "U+0EBC", "U+0EC6",
    "U+0EC8", "U+0EC9", "U+0ECA", "U+0ECB", "U+0ECC", "U+0ECD", "U+0ECE",
    "U+0F18", "U+0F19", "U+0F35", "U+0F37", "U+0F39", "U+0F71", "U+0F72",
    "U+0F73", "U+0F74", "U+0F75", "U+0F76", "U+0F77", "U+0F78", "U+0F79",
    "U+0F7A", "U+0F7B", "U+0F7C", "U+0F7D", "U+0F7E", "U+0F80", "U+0F81",
    "U+0F82", "U+0F83", "U+0F84", "U+0F86", "U+0F87", "U+0F8D", "U+0F8E",
    "U+0F8F", "U+0F90", "U+0F91", "U+0F92", "U+0F93", "U+0F94", "U+0F95",
    "U+0F96", "U+0F97", "U+0F99", "U+0F9A", "U+0F9B", "U+0F9C", "U+0F9D",
    "U+0F9E", "U+0F9F", "U+0FA0", "U+0FA1", "U+0FA2", "U+0FA3", "U+0FA4",
    "U+0FA5", "U+0FA6", "U+0FA7", "U+0FA8", "U+0FA9", "U+0FAA", "U+0FAB",
    "U+0FAC", "U+0FAD", "U+0FAE", "U+0FAF", "U+0FB0", "U+0FB1", "U+0FB2",
    "U+0FB3", "U+0FB4", "U+0FB5", "U+0FB6", "U+0FB7", "U+0FB8", "U+0FB9",
    "U+0FBA", "U+0FBB", "U+0FBC", "U+0FC6", "U+102D", "U+102E", "U+102F",
    "U+1030", "U+1032", "U+1033", "U+1034", "U+1035", "U+1036", "U+1037",
    "U+1039", "U+103A", "U+103D", "U+103E", "U+1058", "U+1059", "U+105E",
    "U+105F", "U+1060", "U+1071", "U+1072", "U+1073", "U+1074", "U+1082",
    "U+1085", "U+1086", "U+108D", "U+109D", "U+10FC", "U+135D", "U+135E",
    "U+135F", "U+1712", "U+1713", "U+1714", "U+1732", "U+1733", "U+1752",
    "U+1753", "U+1772", "U+1773", "U+17B4", "U+17B5", "U+17B7", "U+17B8",
    "U+17B9", "U+17BA", "U+17BB", "U+17BC", "U+17BD", "U+17C6", "U+17C9",
    "U+17CA", "U+17CB", "U+17CC", "U+17CD", "U+17CE", "U+17CF", "U+17D0",
    "U+17D1", "U+17D2", "U+17D3", "U+17D7", "U+17DD", "U+180B", "U+180C",
    "U+180D", "U+180E", "U+180F", "U+1843", "U+1885", "U+1886", "U+18A9",
    "U+1920", "U+1921", "U+1922", "U+1927", "U+1928", "U+1932", "U+1939",
    "U+193A", "U+193B", "U+1A17", "U+1A18", "U+1A1B", "U+1A56", "U+1A58",
    "U+1A59", "U+1A5A", "U+1A5B", "U+1A5C", "U+1A5D", "U+1A5E", "U+1A60",
    "U+1A62", "U+1A65", "U+1A66", "U+1A67", "U+1A68", "U+1A69", "U+1A6A",
    "U+1A6B", "U+1A6C", "U+1A73", "U+1A74", "U+1A75", "U+1A76", "U+1A77",
    "U+1A78", "U+1A79", "U+1A7A", "U+1A7B", "U+1A7C", "U+1A7F", "U+1AA7",
    "U+1AB0", "U+1AB1", "U+1AB2", "U+1AB3", "U+1AB4", "U+1AB5", "U+1AB6",
    "U+1AB7", "U+1AB8", "U+1AB9", "U+1ABA", "U+1ABB", "U+1ABC", "U+1ABD",
    "U+1ABE", "U+1ABF", "U+1AC0", "U+1AC1", "U+1AC2", "U+1AC3", "U+1AC4",
    "U+1AC5", "U+1AC6", "U+1AC7", "U+1AC8", "U+1AC9", "U+1ACA", "U+1ACB",
    "U+1ACC", "U+1ACD", "U+1ACE", "U+1ACF", "U+1AD0", "U+1AD1", "U+1AD2",
    "U+1AD3", "U+1AD4", "U+1AD5", "U+1AD6", "U+1AD7", "U+1AD8", "U+1AD9",
    "U+1ADA", "U+1ADB", "U+1ADC", "U+1ADD", "U+1AE0", "U+1AE1", "U+1AE2",
    "U+1AE3", "U+1AE4", "U+1AE5", "U+1AE6", "U+1AE7", "U+1AE8", "U+1AE9",
    "U+1AEA", "U+1AEB", "U+1B00", "U+1B01", "U+1B02", "U+1B03", "U+1B34",
    "U+1B36", "U+1B37", "U+1B38", "U+1B39", "U+1B3A", "U+1B3C", "U+1B42",
    "U+1B6B", "U+1B6C", "U+1B6D", "U+1B6E", "U+1B6F", "U+1B70", "U+1B71",
    "U+1B72", "U+1B73", "U+1B80", "U+1B81", "U+1BA2", "U+1BA3", "U+1BA4",
    "U+1BA5", "U+1BA8", "U+1BA9", "U+1BAB", "U+1BAC", "U+1BAD", "U+1BE6",
    "U+1BE8", "U+1BE9", "U+1BED", "U+1BEF", "U+1BF0", "U+1BF1", "U+1C2C",
    "U+1C2D", "U+1C2E", "U+1C2F", "U+1C30", "U+1C31", "U+1C32", "U+1C33",
    "U+1C36", "U+1C37", "U+1C78", "U+1C79", "U+1C7A", "U+1C7B", "U+1C7C",
    "U+1C7D", "U+1CD0", "U+1CD1", "U+1CD2", "U+1CD4", "U+1CD5", "U+1CD6",
    "U+1CD7", "U+1CD8", "U+1CD9", "U+1CDA", "U+1CDB", "U+1CDC", "U+1CDD",
    "U+1CDE", "U+1CDF", "U+1CE0", "U+1CE2", "U+1CE3", "U+1CE4", "U+1CE5",
    "U+1CE6", "U+1CE7", "U+1CE8", "U+1CED", "U+1CF4", "U+1CF8", "U+1CF9",
    "U+1D2C", "U+1D2D", "U+1D2E", "U+1D2F", "U+1D30", "U+1D31", "U+1D32",
    "U+1D33", "U+1D34", "U+1D35", "U+1D36", "U+1D37", "U+1D38", "U+1D39",
    "U+1D3A", "U+1D3B", "U+1D3C", "U+1D3D", "U+1D3E", "U+1D3F", "U+1D40",
    "U+1D41", "U+1D42", "U+1D43", "U+1D44", "U+1D45", "U+1D46", "U+1D47",
    "U+1D48", "U+1D49", "U+1D4A", "U+1D4B", "U+1D4C", "U+1D4D", "U+1D4E",
    "U+1D4F", "U+1D50", "U+1D51", "U+1D52", "U+1D53", "U+1D54", "U+1D55",
    "U+1D56", "U+1D57", "U+1D58", "U+1D59", "U+1D5A", "U+1D5B", "U+1D5C",
    "U+1D5D", "U+1D5E", "U+1D5F", "U+1D60", "U+1D61", "U+1D62", "U+1D63",
    "U+1D64", "U+1D65", "U+1D66", "U+1D67", "U+1D68", "U+1D69", "U+1D6A",
    "U+1D78", "U+1D9B", "U+1D9C", "U+1D9D", "U+1D9E", "U+1D9F", "U+1DA0",
    "U+1DA1", "U+1DA2", "U+1DA3", "U+1DA4", "U+1DA5", "U+1DA6", "U+1DA7",
    "U+1DA8", "U+1DA9", "U+1DAA", "U+1DAB", "U+1DAC", "U+1DAD", "U+1DAE",
    "U+1DAF", "U+1DB0", "U+1DB1", "U+1DB2", "U+1DB3", "U+1DB4", "U+1DB5",
    "U+1DB6", "U+1DB7", "U+1DB8", "U+1DB9", "U+1DBA", "U+1DBB", "U+1DBC",
    "U+1DBD", "U+1DBE", "U+1DBF", "U+1DC0", "U+1DC1", "U+1DC2", "U+1DC3",
    "U+1DC4", "U+1DC5", "U+1DC6", "U+1DC7", "U+1DC8", "U+1DC9", "U+1DCA",
    "U+1DCB", "U+1DCC", "U+1DCD", "U+1DCE", "U+1DCF", "U+1DD0", "U+1DD1",
    "U+1DD2", "U+1DD3", "U+1DD4", "U+1DD5", "U+1DD6", "U+1DD7", "U+1DD8",
    "U+1DD9", "U+1DDA", "U+1DDB", "U+1DDC", "U+1DDD", "U+1DDE", "U+1DDF",
    "U+1DE0", "U+1DE1", "U+1DE2", "U+1DE3", "U+1DE4", "U+1DE5", "U+1DE6",
    "U+1DE7", "U+1DE8", "U+1DE9", "U+1DEA", "U+1DEB", "U+1DEC", "U+1DED",
    "U+1DEE", "U+1DEF", "U+1DF0", "U+1DF1", "U+1DF2", "U+1DF3", "U+1DF4",
    "U+1DF5", "U+1DF6", "U+1DF7", "U+1DF8", "U+1DF9", "U+1DFA", "U+1DFB",
    "U+1DFC", "U+1DFD", "U+1DFE", "U+1DFF", "U+1FBD", "U+1FBF", "U+1FC0",
    "U+1FC1", "U+1FCD", "U+1FCE", "U+1FCF", "U+1FDD", "U+1FDE", "U+1FDF",
    "U+1FED", "U+1FEE", "U+1FEF", "U+1FFD", "U+1FFE", "U+200B", "U+200C",
    "U+200D", "U+200E", "U+200F", "U+2018", "U+2019", "U+2024", "U+2027",
    "U+202A", "U+202B", "U+202C", "U+202D", "U+202E", "U+2060", "U+2061",
    "U+2062", "U+2063", "U+2064", "U+2066", "U+2067", "U+2068", "U+2069",
    "U+206A", "U+206B", "U+206C", "U+206D", "U+206E", "U+206F", "U+2071",
    "U+207F", "U+2090", "U+2091", "U+2092", "U+2093", "U+2094", "U+2095",
    "U+2096", "U+2097", "U+2098", "U+2099", "U+209A", "U+209B", "U+209C",
    "U+20D0", "U+20D1", "U+20D2", "U+20D3", "U+20D4", "U+20D5", "U+20D6",
    "U+20D7", "U+20D8", "U+20D9", "U+20DA", "U+20DB", "U+20DC", "U+20DD",
    "U+20DE", "U+20DF", "U+20E0", "U+20E1", "U+20E2", "U+20E3", "U+20E4",
    "U+20E5", "U+20E6", "U+20E7", "U+20E8", "U+20E9", "U+20EA", "U+20EB",
    "U+20EC", "U+20ED", "U+20EE", "U+20EF", "U+20F0", "U+2C7C", "U+2C7D",
    "U+2CEF", "U+2CF0", "U+2CF1", "U+2D6F", "U+2D7F", "U+2DE0", "U+2DE1",
    "U+2DE2", "U+2DE3", "U+2DE4", "U+2DE5", "U+2DE6", "U+2DE7", "U+2DE8",
    "U+2DE9", "U+2DEA", "U+2DEB", "U+2DEC", "U+2DED", "U+2DEE", "U+2DEF",
    "U+2DF0", "U+2DF1", "U+2DF2", "U+2DF3", "U+2DF4", "U+2DF5", "U+2DF6",
    "U+2DF7", "U+2DF8", "U+2DF9", "U+2DFA", "U+2DFB", "U+2DFC", "U+2DFD",
    "U+2DFE", "U+2DFF", "U+2E2F", "U+3005", "U+302A", "U+302B", "U+302C",
    "U+302D", "U+3031", "U+3032", "U+3033", "U+3034", "U+3035", "U+303B",
    "U+3099", "U+309A", "U+309B", "U+309C", "U+309D", "U+309E", "U+30FC",
    "U+30FD", "U+30FE", "U+A015", "U+A4F8", "U+A4F9", "U+A4FA", "U+A4FB",
    "U+A4FC", "U+A4FD", "U+A60C", "U+A66F", "U+A670", "U+A671", "U+A672",
    "U+A674", "U+A675", "U+A676", "U+A677", "U+A678", "U+A679", "U+A67A",
    "U+A67B", "U+A67C", "U+A67D", "U+A67F", "U+A69C", "U+A69D", "U+A69E",
    "U+A69F", "U+A6F0", "U+A6F1", "U+A700", "U+A701", "U+A702", "U+A703",
    "U+A704", "U+A705", "U+A706", "U+A707", "U+A708", "U+A709", "U+A70A",
    "U+A70B", "U+A70C", "U+A70D", "U+A70E", "U+A70F", "U+A710", "U+A711",
    "U+A712", "U+A713", "U+A714", "U+A715", "U+A716", "U+A717", "U+A718",
    "U+A719", "U+A71A", "U+A71B", "U+A71C", "U+A71D", "U+A71E", "U+A71F",
    "U+A720", "U+A721", "U+A770", "U+A788", "U+A789", "U+A78A", "U+A7F1",
    "U+A7F2", "U+A7F3", "U+A7F4", "U+A7F8", "U+A7F9", "U+A802", "U+A806",
    "U+A80B", "U+A825", "U+A826", "U+A82C", "U+A8C4", "U+A8C5", "U+A8E0",
    "U+A8E1", "U+A8E2", "U+A8E3", "U+A8E4", "U+A8E5", "U+A8E6", "U+A8E7",
    "U+A8E8", "U+A8E9", "U+A8EA", "U+A8EB", "U+A8EC", "U+A8ED", "U+A8EE",
    "U+A8EF", "U+A8F0", "U+A8F1", "U+A8FF", "U+A926", "U+A927", "U+A928",
    "U+A929", "U+A92A", "U+A92B", "U+A92C", "U+A92D", "U+A947", "U+A948",
    "U+A949", "U+A94A", "U+A94B", "U+A94C", "U+A94D", "U+A94E", "U+A94F",
    "U+A950", "U+A951", "U+A980", "U+A981", "U+A982", "U+A9B3", "U+A9B6",
    "U+A9B7", "U+A9B8", "U+A9B9", "U+A9BC", "U+A9BD", "U+A9CF", "U+A9E5",
    "U+A9E6", "U+AA29", "U+AA2A", "U+AA2B", "U+AA2C", "U+AA2D", "U+AA2E",
    "U+AA31", "U+AA32", "U+AA35", "U+AA36", "U+AA43", "U+AA4C", "U+AA70",
    "U+AA7C", "U+AAB0", "U+AAB2", "U+AAB3", "U+AAB4", "U+AAB7", "U+AAB8",
    "U+AABE", "U+AABF", "U+AAC1", "U+AADD", "U+AAEC", "U+AAED", "U+AAF3",
    "U+AAF4", "U+AAF6", "U+AB5B", "U+AB5C", "U+AB5D", "U+AB5E", "U+AB5F",
    "U+AB69", "U+AB6A", "U+AB6B", "U+ABE5", "U+ABE8", "U+ABED", "U+FB1E",
    "U+FBB2", "U+FBB3", "U+FBB4", "U+FBB5", "U+FBB6", "U+FBB7", "U+FBB8",
    "U+FBB9", "U+FBBA", "U+FBBB", "U+FBBC", "U+FBBD", "U+FBBE", "U+FBBF",
    "U+FBC0", "U+FBC1", "U+FBC2", "U+FE00", "U+FE01", "U+FE02", "U+FE03",
    "U+FE04", "U+FE05", "U+FE06", "U+FE07", "U+FE08", "U+FE09", "U+FE0A",
    "U+FE0B", "U+FE0C", "U+FE0D", "U+FE0E", "U+FE0F", "U+FE13", "U+FE20",
    "U+FE21", "U+FE22", "U+FE23", "U+FE24", "U+FE25", "U+FE26", "U+FE27",
    "U+FE28", "U+FE29", "U+FE2A", "U+FE2B", "U+FE2C", "U+FE2D", "U+FE2E",
    "U+FE2F", "U+FE52", "U+FE55", "U+FEFF", "U+FF07", "U+FF0E", "U+FF1A",
    "U+FF3E", "U+FF40", "U+FF70", "U+FF9E", "U+FF9F", "U+FFE3", "U+FFF9",
    "U+FFFA", "U+FFFB"}

CASE_IGNORABLE_PAIRS ==
  {<<"U+D800","U+DDFD">>, <<"U+D800","U+DEE0">>, <<"U+D800","U+DF76">>,
    <<"U+D800","U+DF77">>, <<"U+D800","U+DF78">>, <<"U+D800","U+DF79">>,
    <<"U+D800","U+DF7A">>, <<"U+D801","U+DF80">>, <<"U+D801","U+DF81">>,
    <<"U+D801","U+DF82">>, <<"U+D801","U+DF83">>, <<"U+D801","U+DF84">>,
    <<"U+D801","U+DF85">>, <<"U+D801","U+DF87">>, <<"U+D801","U+DF88">>,
    <<"U+D801","U+DF89">>, <<"U+D801","U+DF8A">>, <<"U+D801","U+DF8B">>,
    <<"U+D801","U+DF8C">>, <<"U+D801","U+DF8D">>, <<"U+D801","U+DF8E">>,
    <<"U+D801","U+DF8F">>, <<"U+D801","U+DF90">>, <<"U+D801","U+DF91">>,
    <<"U+D801","U+DF92">>, <<"U+D801","U+DF93">>, <<"U+D801","U+DF94">>,
    <<"U+D801","U+DF95">>, <<"U+D801","U+DF96">>, <<"U+D801","U+DF97">>,
    <<"U+D801","U+DF98">>, <<"U+D801","U+DF99">>, <<"U+D801","U+DF9A">>,
    <<"U+D801","U+DF9B">>, <<"U+D801","U+DF9C">>, <<"U+D801","U+DF9D">>,
    <<"U+D801","U+DF9E">>, <<"U+D801","U+DF9F">>, <<"U+D801","U+DFA0">>,
    <<"U+D801","U+DFA1">>, <<"U+D801","U+DFA2">>, <<"U+D801","U+DFA3">>,
    <<"U+D801","U+DFA4">>, <<"U+D801","U+DFA5">>, <<"U+D801","U+DFA6">>,
    <<"U+D801","U+DFA7">>, <<"U+D801","U+DFA8">>, <<"U+D801","U+DFA9">>,
    <<"U+D801","U+DFAA">>, <<"U+D801","U+DFAB">>, <<"U+D801","U+DFAC">>,
    <<"U+D801","U+DFAD">>, <<"U+D801","U+DFAE">>, <<"U+D801","U+DFAF">>,
    <<"U+D801","U+DFB0">>, <<"U+D801","U+DFB2">>, <<"U+D801","U+DFB3">>,
    <<"U+D801","U+DFB4">>, <<"U+D801","U+DFB5">>, <<"U+D801","U+DFB6">>,
    <<"U+D801","U+DFB7">>, <<"U+D801","U+DFB8">>, <<"U+D801","U+DFB9">>,
    <<"U+D801","U+DFBA">>, <<"U+D802","U+DE01">>, <<"U+D802","U+DE02">>,
    <<"U+D802","U+DE03">>, <<"U+D802","U+DE05">>, <<"U+D802","U+DE06">>,
    <<"U+D802","U+DE0C">>, <<"U+D802","U+DE0D">>, <<"U+D802","U+DE0E">>,
    <<"U+D802","U+DE0F">>, <<"U+D802","U+DE38">>, <<"U+D802","U+DE39">>,
    <<"U+D802","U+DE3A">>, <<"U+D802","U+DE3F">>, <<"U+D802","U+DEE5">>,
    <<"U+D802","U+DEE6">>, <<"U+D803","U+DD24">>, <<"U+D803","U+DD25">>,
    <<"U+D803","U+DD26">>, <<"U+D803","U+DD27">>, <<"U+D803","U+DD4E">>,
    <<"U+D803","U+DD69">>, <<"U+D803","U+DD6A">>, <<"U+D803","U+DD6B">>,
    <<"U+D803","U+DD6C">>, <<"U+D803","U+DD6D">>, <<"U+D803","U+DD6F">>,
    <<"U+D803","U+DEAB">>, <<"U+D803","U+DEAC">>, <<"U+D803","U+DEC5">>,
    <<"U+D803","U+DEFA">>, <<"U+D803","U+DEFB">>, <<"U+D803","U+DEFC">>,
    <<"U+D803","U+DEFD">>, <<"U+D803","U+DEFE">>, <<"U+D803","U+DEFF">>,
    <<"U+D803","U+DF46">>, <<"U+D803","U+DF47">>, <<"U+D803","U+DF48">>,
    <<"U+D803","U+DF49">>, <<"U+D803","U+DF4A">>, <<"U+D803","U+DF4B">>,
    <<"U+D803","U+DF4C">>, <<"U+D803","U+DF4D">>, <<"U+D803","U+DF4E">>,
    <<"U+D803","U+DF4F">>, <<"U+D803","U+DF50">>, <<"U+D803","U+DF82">>,
    <<"U+D803","U+DF83">>, <<"U+D803","U+DF84">>, <<"U+D803","U+DF85">>,
    <<"U+D804","U+DC01">>, <<"U+D804","U+DC38">>, <<"U+D804","U+DC39">>,
    <<"U+D804","U+DC3A">>, <<"U+D804","U+DC3B">>, <<"U+D804","U+DC3C">>,
    <<"U+D804","U+DC3D">>, <<"U+D804","U+DC3E">>, <<"U+D804","U+DC3F">>,
    <<"U+D804","U+DC40">>, <<"U+D804","U+DC41">>, <<"U+D804","U+DC42">>,
    <<"U+D804","U+DC43">>, <<"U+D804","U+DC44">>, <<"U+D804","U+DC45">>,
    <<"U+D804","U+DC46">>, <<"U+D804","U+DC70">>, <<"U+D804","U+DC73">>,
    <<"U+D804","U+DC74">>, <<"U+D804","U+DC7F">>, <<"U+D804","U+DC80">>,
    <<"U+D804","U+DC81">>, <<"U+D804","U+DCB3">>, <<"U+D804","U+DCB4">>,
    <<"U+D804","U+DCB5">>, <<"U+D804","U+DCB6">>, <<"U+D804","U+DCB9">>,
    <<"U+D804","U+DCBA">>, <<"U+D804","U+DCBD">>, <<"U+D804","U+DCC2">>,
    <<"U+D804","U+DCCD">>, <<"U+D804","U+DD00">>, <<"U+D804","U+DD01">>,
    <<"U+D804","U+DD02">>, <<"U+D804","U+DD27">>, <<"U+D804","U+DD28">>,
    <<"U+D804","U+DD29">>, <<"U+D804","U+DD2A">>, <<"U+D804","U+DD2B">>,
    <<"U+D804","U+DD2D">>, <<"U+D804","U+DD2E">>, <<"U+D804","U+DD2F">>,
    <<"U+D804","U+DD30">>, <<"U+D804","U+DD31">>, <<"U+D804","U+DD32">>,
    <<"U+D804","U+DD33">>, <<"U+D804","U+DD34">>, <<"U+D804","U+DD73">>,
    <<"U+D804","U+DD80">>, <<"U+D804","U+DD81">>, <<"U+D804","U+DDB6">>,
    <<"U+D804","U+DDB7">>, <<"U+D804","U+DDB8">>, <<"U+D804","U+DDB9">>,
    <<"U+D804","U+DDBA">>, <<"U+D804","U+DDBB">>, <<"U+D804","U+DDBC">>,
    <<"U+D804","U+DDBD">>, <<"U+D804","U+DDBE">>, <<"U+D804","U+DDC9">>,
    <<"U+D804","U+DDCA">>, <<"U+D804","U+DDCB">>, <<"U+D804","U+DDCC">>,
    <<"U+D804","U+DDCF">>, <<"U+D804","U+DE2F">>, <<"U+D804","U+DE30">>,
    <<"U+D804","U+DE31">>, <<"U+D804","U+DE34">>, <<"U+D804","U+DE36">>,
    <<"U+D804","U+DE37">>, <<"U+D804","U+DE3E">>, <<"U+D804","U+DE41">>,
    <<"U+D804","U+DEDF">>, <<"U+D804","U+DEE3">>, <<"U+D804","U+DEE4">>,
    <<"U+D804","U+DEE5">>, <<"U+D804","U+DEE6">>, <<"U+D804","U+DEE7">>,
    <<"U+D804","U+DEE8">>, <<"U+D804","U+DEE9">>, <<"U+D804","U+DEEA">>,
    <<"U+D804","U+DF00">>, <<"U+D804","U+DF01">>, <<"U+D804","U+DF3B">>,
    <<"U+D804","U+DF3C">>, <<"U+D804","U+DF40">>, <<"U+D804","U+DF66">>,
    <<"U+D804","U+DF67">>, <<"U+D804","U+DF68">>, <<"U+D804","U+DF69">>,
    <<"U+D804","U+DF6A">>, <<"U+D804","U+DF6B">>, <<"U+D804","U+DF6C">>,
    <<"U+D804","U+DF70">>, <<"U+D804","U+DF71">>, <<"U+D804","U+DF72">>,
    <<"U+D804","U+DF73">>, <<"U+D804","U+DF74">>, <<"U+D804","U+DFBB">>,
    <<"U+D804","U+DFBC">>, <<"U+D804","U+DFBD">>, <<"U+D804","U+DFBE">>,
    <<"U+D804","U+DFBF">>, <<"U+D804","U+DFC0">>, <<"U+D804","U+DFCE">>,
    <<"U+D804","U+DFD0">>, <<"U+D804","U+DFD2">>, <<"U+D804","U+DFE1">>,
    <<"U+D804","U+DFE2">>, <<"U+D805","U+DC38">>, <<"U+D805","U+DC39">>,
    <<"U+D805","U+DC3A">>, <<"U+D805","U+DC3B">>, <<"U+D805","U+DC3C">>,
    <<"U+D805","U+DC3D">>, <<"U+D805","U+DC3E">>, <<"U+D805","U+DC3F">>,
    <<"U+D805","U+DC42">>, <<"U+D805","U+DC43">>, <<"U+D805","U+DC44">>,
    <<"U+D805","U+DC46">>, <<"U+D805","U+DC5E">>, <<"U+D805","U+DCB3">>,
    <<"U+D805","U+DCB4">>, <<"U+D805","U+DCB5">>, <<"U+D805","U+DCB6">>,
    <<"U+D805","U+DCB7">>, <<"U+D805","U+DCB8">>, <<"U+D805","U+DCBA">>,
    <<"U+D805","U+DCBF">>, <<"U+D805","U+DCC0">>, <<"U+D805","U+DCC2">>,
    <<"U+D805","U+DCC3">>, <<"U+D805","U+DDB2">>, <<"U+D805","U+DDB3">>,
    <<"U+D805","U+DDB4">>, <<"U+D805","U+DDB5">>, <<"U+D805","U+DDBC">>,
    <<"U+D805","U+DDBD">>, <<"U+D805","U+DDBF">>, <<"U+D805","U+DDC0">>,
    <<"U+D805","U+DDDC">>, <<"U+D805","U+DDDD">>, <<"U+D805","U+DE33">>,
    <<"U+D805","U+DE34">>, <<"U+D805","U+DE35">>, <<"U+D805","U+DE36">>,
    <<"U+D805","U+DE37">>, <<"U+D805","U+DE38">>, <<"U+D805","U+DE39">>,
    <<"U+D805","U+DE3A">>, <<"U+D805","U+DE3D">>, <<"U+D805","U+DE3F">>,
    <<"U+D805","U+DE40">>, <<"U+D805","U+DEAB">>, <<"U+D805","U+DEAD">>,
    <<"U+D805","U+DEB0">>, <<"U+D805","U+DEB1">>, <<"U+D805","U+DEB2">>,
    <<"U+D805","U+DEB3">>, <<"U+D805","U+DEB4">>, <<"U+D805","U+DEB5">>,
    <<"U+D805","U+DEB7">>, <<"U+D805","U+DF1D">>, <<"U+D805","U+DF1F">>,
    <<"U+D805","U+DF22">>, <<"U+D805","U+DF23">>, <<"U+D805","U+DF24">>,
    <<"U+D805","U+DF25">>, <<"U+D805","U+DF27">>, <<"U+D805","U+DF28">>,
    <<"U+D805","U+DF29">>, <<"U+D805","U+DF2A">>, <<"U+D805","U+DF2B">>,
    <<"U+D806","U+DC2F">>, <<"U+D806","U+DC30">>, <<"U+D806","U+DC31">>,
    <<"U+D806","U+DC32">>, <<"U+D806","U+DC33">>, <<"U+D806","U+DC34">>,
    <<"U+D806","U+DC35">>, <<"U+D806","U+DC36">>, <<"U+D806","U+DC37">>,
    <<"U+D806","U+DC39">>, <<"U+D806","U+DC3A">>, <<"U+D806","U+DD3B">>,
    <<"U+D806","U+DD3C">>, <<"U+D806","U+DD3E">>, <<"U+D806","U+DD43">>,
    <<"U+D806","U+DDD4">>, <<"U+D806","U+DDD5">>, <<"U+D806","U+DDD6">>,
    <<"U+D806","U+DDD7">>, <<"U+D806","U+DDDA">>, <<"U+D806","U+DDDB">>,
    <<"U+D806","U+DDE0">>, <<"U+D806","U+DE01">>, <<"U+D806","U+DE02">>,
    <<"U+D806","U+DE03">>, <<"U+D806","U+DE04">>, <<"U+D806","U+DE05">>,
    <<"U+D806","U+DE06">>, <<"U+D806","U+DE07">>, <<"U+D806","U+DE08">>,
    <<"U+D806","U+DE09">>, <<"U+D806","U+DE0A">>, <<"U+D806","U+DE33">>,
    <<"U+D806","U+DE34">>, <<"U+D806","U+DE35">>, <<"U+D806","U+DE36">>,
    <<"U+D806","U+DE37">>, <<"U+D806","U+DE38">>, <<"U+D806","U+DE3B">>,
    <<"U+D806","U+DE3C">>, <<"U+D806","U+DE3D">>, <<"U+D806","U+DE3E">>,
    <<"U+D806","U+DE47">>, <<"U+D806","U+DE51">>, <<"U+D806","U+DE52">>,
    <<"U+D806","U+DE53">>, <<"U+D806","U+DE54">>, <<"U+D806","U+DE55">>,
    <<"U+D806","U+DE56">>, <<"U+D806","U+DE59">>, <<"U+D806","U+DE5A">>,
    <<"U+D806","U+DE5B">>, <<"U+D806","U+DE8A">>, <<"U+D806","U+DE8B">>,
    <<"U+D806","U+DE8C">>, <<"U+D806","U+DE8D">>, <<"U+D806","U+DE8E">>,
    <<"U+D806","U+DE8F">>, <<"U+D806","U+DE90">>, <<"U+D806","U+DE91">>,
    <<"U+D806","U+DE92">>, <<"U+D806","U+DE93">>, <<"U+D806","U+DE94">>,
    <<"U+D806","U+DE95">>, <<"U+D806","U+DE96">>, <<"U+D806","U+DE98">>,
    <<"U+D806","U+DE99">>, <<"U+D806","U+DF60">>, <<"U+D806","U+DF62">>,
    <<"U+D806","U+DF63">>, <<"U+D806","U+DF64">>, <<"U+D806","U+DF66">>,
    <<"U+D807","U+DC30">>, <<"U+D807","U+DC31">>, <<"U+D807","U+DC32">>,
    <<"U+D807","U+DC33">>, <<"U+D807","U+DC34">>, <<"U+D807","U+DC35">>,
    <<"U+D807","U+DC36">>, <<"U+D807","U+DC38">>, <<"U+D807","U+DC39">>,
    <<"U+D807","U+DC3A">>, <<"U+D807","U+DC3B">>, <<"U+D807","U+DC3C">>,
    <<"U+D807","U+DC3D">>, <<"U+D807","U+DC3F">>, <<"U+D807","U+DC92">>,
    <<"U+D807","U+DC93">>, <<"U+D807","U+DC94">>, <<"U+D807","U+DC95">>,
    <<"U+D807","U+DC96">>, <<"U+D807","U+DC97">>, <<"U+D807","U+DC98">>,
    <<"U+D807","U+DC99">>, <<"U+D807","U+DC9A">>, <<"U+D807","U+DC9B">>,
    <<"U+D807","U+DC9C">>, <<"U+D807","U+DC9D">>, <<"U+D807","U+DC9E">>,
    <<"U+D807","U+DC9F">>, <<"U+D807","U+DCA0">>, <<"U+D807","U+DCA1">>,
    <<"U+D807","U+DCA2">>, <<"U+D807","U+DCA3">>, <<"U+D807","U+DCA4">>,
    <<"U+D807","U+DCA5">>, <<"U+D807","U+DCA6">>, <<"U+D807","U+DCA7">>,
    <<"U+D807","U+DCAA">>, <<"U+D807","U+DCAB">>, <<"U+D807","U+DCAC">>,
    <<"U+D807","U+DCAD">>, <<"U+D807","U+DCAE">>, <<"U+D807","U+DCAF">>,
    <<"U+D807","U+DCB0">>, <<"U+D807","U+DCB2">>, <<"U+D807","U+DCB3">>,
    <<"U+D807","U+DCB5">>, <<"U+D807","U+DCB6">>, <<"U+D807","U+DD31">>,
    <<"U+D807","U+DD32">>, <<"U+D807","U+DD33">>, <<"U+D807","U+DD34">>,
    <<"U+D807","U+DD35">>, <<"U+D807","U+DD36">>, <<"U+D807","U+DD3A">>,
    <<"U+D807","U+DD3C">>, <<"U+D807","U+DD3D">>, <<"U+D807","U+DD3F">>,
    <<"U+D807","U+DD40">>, <<"U+D807","U+DD41">>, <<"U+D807","U+DD42">>,
    <<"U+D807","U+DD43">>, <<"U+D807","U+DD44">>, <<"U+D807","U+DD45">>,
    <<"U+D807","U+DD47">>, <<"U+D807","U+DD90">>, <<"U+D807","U+DD91">>,
    <<"U+D807","U+DD95">>, <<"U+D807","U+DD97">>, <<"U+D807","U+DDD9">>,
    <<"U+D807","U+DEF3">>, <<"U+D807","U+DEF4">>, <<"U+D807","U+DF00">>,
    <<"U+D807","U+DF01">>, <<"U+D807","U+DF36">>, <<"U+D807","U+DF37">>,
    <<"U+D807","U+DF38">>, <<"U+D807","U+DF39">>, <<"U+D807","U+DF3A">>,
    <<"U+D807","U+DF40">>, <<"U+D807","U+DF42">>, <<"U+D807","U+DF5A">>,
    <<"U+D80D","U+DC30">>, <<"U+D80D","U+DC31">>, <<"U+D80D","U+DC32">>,
    <<"U+D80D","U+DC33">>, <<"U+D80D","U+DC34">>, <<"U+D80D","U+DC35">>,
    <<"U+D80D","U+DC36">>, <<"U+D80D","U+DC37">>, <<"U+D80D","U+DC38">>,
    <<"U+D80D","U+DC39">>, <<"U+D80D","U+DC3A">>, <<"U+D80D","U+DC3B">>,
    <<"U+D80D","U+DC3C">>, <<"U+D80D","U+DC3D">>, <<"U+D80D","U+DC3E">>,
    <<"U+D80D","U+DC3F">>, <<"U+D80D","U+DC40">>, <<"U+D80D","U+DC47">>,
    <<"U+D80D","U+DC48">>, <<"U+D80D","U+DC49">>, <<"U+D80D","U+DC4A">>,
    <<"U+D80D","U+DC4B">>, <<"U+D80D","U+DC4C">>, <<"U+D80D","U+DC4D">>,
    <<"U+D80D","U+DC4E">>, <<"U+D80D","U+DC4F">>, <<"U+D80D","U+DC50">>,
    <<"U+D80D","U+DC51">>, <<"U+D80D","U+DC52">>, <<"U+D80D","U+DC53">>,
    <<"U+D80D","U+DC54">>, <<"U+D80D","U+DC55">>, <<"U+D818","U+DD1E">>,
    <<"U+D818","U+DD1F">>, <<"U+D818","U+DD20">>, <<"U+D818","U+DD21">>,
    <<"U+D818","U+DD22">>, <<"U+D818","U+DD23">>, <<"U+D818","U+DD24">>,
    <<"U+D818","U+DD25">>, <<"U+D818","U+DD26">>, <<"U+D818","U+DD27">>,
    <<"U+D818","U+DD28">>, <<"U+D818","U+DD29">>, <<"U+D818","U+DD2D">>,
    <<"U+D818","U+DD2E">>, <<"U+D818","U+DD2F">>, <<"U+D81A","U+DEF0">>,
    <<"U+D81A","U+DEF1">>, <<"U+D81A","U+DEF2">>, <<"U+D81A","U+DEF3">>,
    <<"U+D81A","U+DEF4">>, <<"U+D81A","U+DF30">>, <<"U+D81A","U+DF31">>,
    <<"U+D81A","U+DF32">>, <<"U+D81A","U+DF33">>, <<"U+D81A","U+DF34">>,
    <<"U+D81A","U+DF35">>, <<"U+D81A","U+DF36">>, <<"U+D81A","U+DF40">>,
    <<"U+D81A","U+DF41">>, <<"U+D81A","U+DF42">>, <<"U+D81A","U+DF43">>,
    <<"U+D81B","U+DD40">>, <<"U+D81B","U+DD41">>, <<"U+D81B","U+DD42">>,
    <<"U+D81B","U+DD6B">>, <<"U+D81B","U+DD6C">>, <<"U+D81B","U+DF4F">>,
    <<"U+D81B","U+DF8F">>, <<"U+D81B","U+DF90">>, <<"U+D81B","U+DF91">>,
    <<"U+D81B","U+DF92">>, <<"U+D81B","U+DF93">>, <<"U+D81B","U+DF94">>,
    <<"U+D81B","U+DF95">>, <<"U+D81B","U+DF96">>, <<"U+D81B","U+DF97">>,
    <<"U+D81B","U+DF98">>, <<"U+D81B","U+DF99">>, <<"U+D81B","U+DF9A">>,
    <<"U+D81B","U+DF9B">>, <<"U+D81B","U+DF9C">>, <<"U+D81B","U+DF9D">>,
    <<"U+D81B","U+DF9E">>, <<"U+D81B","U+DF9F">>, <<"U+D81B","U+DFE0">>,
    <<"U+D81B","U+DFE1">>, <<"U+D81B","U+DFE3">>, <<"U+D81B","U+DFE4">>,
    <<"U+D81B","U+DFF2">>, <<"U+D81B","U+DFF3">>, <<"U+D82B","U+DFF0">>,
    <<"U+D82B","U+DFF1">>, <<"U+D82B","U+DFF2">>, <<"U+D82B","U+DFF3">>,
    <<"U+D82B","U+DFF5">>, <<"U+D82B","U+DFF6">>, <<"U+D82B","U+DFF7">>,
    <<"U+D82B","U+DFF8">>, <<"U+D82B","U+DFF9">>, <<"U+D82B","U+DFFA">>,
    <<"U+D82B","U+DFFB">>, <<"U+D82B","U+DFFD">>, <<"U+D82B","U+DFFE">>,
    <<"U+D82F","U+DC9D">>, <<"U+D82F","U+DC9E">>, <<"U+D82F","U+DCA0">>,
    <<"U+D82F","U+DCA1">>, <<"U+D82F","U+DCA2">>, <<"U+D82F","U+DCA3">>,
    <<"U+D833","U+DF00">>, <<"U+D833","U+DF01">>, <<"U+D833","U+DF02">>,
    <<"U+D833","U+DF03">>, <<"U+D833","U+DF04">>, <<"U+D833","U+DF05">>,
    <<"U+D833","U+DF06">>, <<"U+D833","U+DF07">>, <<"U+D833","U+DF08">>,
    <<"U+D833","U+DF09">>, <<"U+D833","U+DF0A">>, <<"U+D833","U+DF0B">>,
    <<"U+D833","U+DF0C">>, <<"U+D833","U+DF0D">>, <<"U+D833","U+DF0E">>,
    <<"U+D833","U+DF0F">>, <<"U+D833","U+DF10">>, <<"U+D833","U+DF11">>,
    <<"U+D833","U+DF12">>, <<"U+D833","U+DF13">>, <<"U+D833","U+DF14">>,
    <<"U+D833","U+DF15">>, <<"U+D833","U+DF16">>, <<"U+D833","U+DF17">>,
    <<"U+D833","U+DF18">>, <<"U+D833","U+DF19">>, <<"U+D833","U+DF1A">>,
    <<"U+D833","U+DF1B">>, <<"U+D833","U+DF1C">>, <<"U+D833","U+DF1D">>,
    <<"U+D833","U+DF1E">>, <<"U+D833","U+DF1F">>, <<"U+D833","U+DF20">>,
    <<"U+D833","U+DF21">>, <<"U+D833","U+DF22">>, <<"U+D833","U+DF23">>,
    <<"U+D833","U+DF24">>, <<"U+D833","U+DF25">>, <<"U+D833","U+DF26">>,
    <<"U+D833","U+DF27">>, <<"U+D833","U+DF28">>, <<"U+D833","U+DF29">>,
    <<"U+D833","U+DF2A">>, <<"U+D833","U+DF2B">>, <<"U+D833","U+DF2C">>,
    <<"U+D833","U+DF2D">>, <<"U+D833","U+DF30">>, <<"U+D833","U+DF31">>,
    <<"U+D833","U+DF32">>, <<"U+D833","U+DF33">>, <<"U+D833","U+DF34">>,
    <<"U+D833","U+DF35">>, <<"U+D833","U+DF36">>, <<"U+D833","U+DF37">>,
    <<"U+D833","U+DF38">>, <<"U+D833","U+DF39">>, <<"U+D833","U+DF3A">>,
    <<"U+D833","U+DF3B">>, <<"U+D833","U+DF3C">>, <<"U+D833","U+DF3D">>,
    <<"U+D833","U+DF3E">>, <<"U+D833","U+DF3F">>, <<"U+D833","U+DF40">>,
    <<"U+D833","U+DF41">>, <<"U+D833","U+DF42">>, <<"U+D833","U+DF43">>,
    <<"U+D833","U+DF44">>, <<"U+D833","U+DF45">>, <<"U+D833","U+DF46">>,
    <<"U+D834","U+DD67">>, <<"U+D834","U+DD68">>, <<"U+D834","U+DD69">>,
    <<"U+D834","U+DD73">>, <<"U+D834","U+DD74">>, <<"U+D834","U+DD75">>,
    <<"U+D834","U+DD76">>, <<"U+D834","U+DD77">>, <<"U+D834","U+DD78">>,
    <<"U+D834","U+DD79">>, <<"U+D834","U+DD7A">>, <<"U+D834","U+DD7B">>,
    <<"U+D834","U+DD7C">>, <<"U+D834","U+DD7D">>, <<"U+D834","U+DD7E">>,
    <<"U+D834","U+DD7F">>, <<"U+D834","U+DD80">>, <<"U+D834","U+DD81">>,
    <<"U+D834","U+DD82">>, <<"U+D834","U+DD85">>, <<"U+D834","U+DD86">>,
    <<"U+D834","U+DD87">>, <<"U+D834","U+DD88">>, <<"U+D834","U+DD89">>,
    <<"U+D834","U+DD8A">>, <<"U+D834","U+DD8B">>, <<"U+D834","U+DDAA">>,
    <<"U+D834","U+DDAB">>, <<"U+D834","U+DDAC">>, <<"U+D834","U+DDAD">>,
    <<"U+D834","U+DE42">>, <<"U+D834","U+DE43">>, <<"U+D834","U+DE44">>,
    <<"U+D836","U+DE00">>, <<"U+D836","U+DE01">>, <<"U+D836","U+DE02">>,
    <<"U+D836","U+DE03">>, <<"U+D836","U+DE04">>, <<"U+D836","U+DE05">>,
    <<"U+D836","U+DE06">>, <<"U+D836","U+DE07">>, <<"U+D836","U+DE08">>,
    <<"U+D836","U+DE09">>, <<"U+D836","U+DE0A">>, <<"U+D836","U+DE0B">>,
    <<"U+D836","U+DE0C">>, <<"U+D836","U+DE0D">>, <<"U+D836","U+DE0E">>,
    <<"U+D836","U+DE0F">>, <<"U+D836","U+DE10">>, <<"U+D836","U+DE11">>,
    <<"U+D836","U+DE12">>, <<"U+D836","U+DE13">>, <<"U+D836","U+DE14">>,
    <<"U+D836","U+DE15">>, <<"U+D836","U+DE16">>, <<"U+D836","U+DE17">>,
    <<"U+D836","U+DE18">>, <<"U+D836","U+DE19">>, <<"U+D836","U+DE1A">>,
    <<"U+D836","U+DE1B">>, <<"U+D836","U+DE1C">>, <<"U+D836","U+DE1D">>,
    <<"U+D836","U+DE1E">>, <<"U+D836","U+DE1F">>, <<"U+D836","U+DE20">>,
    <<"U+D836","U+DE21">>, <<"U+D836","U+DE22">>, <<"U+D836","U+DE23">>,
    <<"U+D836","U+DE24">>, <<"U+D836","U+DE25">>, <<"U+D836","U+DE26">>,
    <<"U+D836","U+DE27">>, <<"U+D836","U+DE28">>, <<"U+D836","U+DE29">>,
    <<"U+D836","U+DE2A">>, <<"U+D836","U+DE2B">>, <<"U+D836","U+DE2C">>,
    <<"U+D836","U+DE2D">>, <<"U+D836","U+DE2E">>, <<"U+D836","U+DE2F">>,
    <<"U+D836","U+DE30">>, <<"U+D836","U+DE31">>, <<"U+D836","U+DE32">>,
    <<"U+D836","U+DE33">>, <<"U+D836","U+DE34">>, <<"U+D836","U+DE35">>,
    <<"U+D836","U+DE36">>, <<"U+D836","U+DE3B">>, <<"U+D836","U+DE3C">>,
    <<"U+D836","U+DE3D">>, <<"U+D836","U+DE3E">>, <<"U+D836","U+DE3F">>,
    <<"U+D836","U+DE40">>, <<"U+D836","U+DE41">>, <<"U+D836","U+DE42">>,
    <<"U+D836","U+DE43">>, <<"U+D836","U+DE44">>, <<"U+D836","U+DE45">>,
    <<"U+D836","U+DE46">>, <<"U+D836","U+DE47">>, <<"U+D836","U+DE48">>,
    <<"U+D836","U+DE49">>, <<"U+D836","U+DE4A">>, <<"U+D836","U+DE4B">>,
    <<"U+D836","U+DE4C">>, <<"U+D836","U+DE4D">>, <<"U+D836","U+DE4E">>,
    <<"U+D836","U+DE4F">>, <<"U+D836","U+DE50">>, <<"U+D836","U+DE51">>,
    <<"U+D836","U+DE52">>, <<"U+D836","U+DE53">>, <<"U+D836","U+DE54">>,
    <<"U+D836","U+DE55">>, <<"U+D836","U+DE56">>, <<"U+D836","U+DE57">>,
    <<"U+D836","U+DE58">>, <<"U+D836","U+DE59">>, <<"U+D836","U+DE5A">>,
    <<"U+D836","U+DE5B">>, <<"U+D836","U+DE5C">>, <<"U+D836","U+DE5D">>,
    <<"U+D836","U+DE5E">>, <<"U+D836","U+DE5F">>, <<"U+D836","U+DE60">>,
    <<"U+D836","U+DE61">>, <<"U+D836","U+DE62">>, <<"U+D836","U+DE63">>,
    <<"U+D836","U+DE64">>, <<"U+D836","U+DE65">>, <<"U+D836","U+DE66">>,
    <<"U+D836","U+DE67">>, <<"U+D836","U+DE68">>, <<"U+D836","U+DE69">>,
    <<"U+D836","U+DE6A">>, <<"U+D836","U+DE6B">>, <<"U+D836","U+DE6C">>,
    <<"U+D836","U+DE75">>, <<"U+D836","U+DE84">>, <<"U+D836","U+DE9B">>,
    <<"U+D836","U+DE9C">>, <<"U+D836","U+DE9D">>, <<"U+D836","U+DE9E">>,
    <<"U+D836","U+DE9F">>, <<"U+D836","U+DEA1">>, <<"U+D836","U+DEA2">>,
    <<"U+D836","U+DEA3">>, <<"U+D836","U+DEA4">>, <<"U+D836","U+DEA5">>,
    <<"U+D836","U+DEA6">>, <<"U+D836","U+DEA7">>, <<"U+D836","U+DEA8">>,
    <<"U+D836","U+DEA9">>, <<"U+D836","U+DEAA">>, <<"U+D836","U+DEAB">>,
    <<"U+D836","U+DEAC">>, <<"U+D836","U+DEAD">>, <<"U+D836","U+DEAE">>,
    <<"U+D836","U+DEAF">>, <<"U+D838","U+DC00">>, <<"U+D838","U+DC01">>,
    <<"U+D838","U+DC02">>, <<"U+D838","U+DC03">>, <<"U+D838","U+DC04">>,
    <<"U+D838","U+DC05">>, <<"U+D838","U+DC06">>, <<"U+D838","U+DC08">>,
    <<"U+D838","U+DC09">>, <<"U+D838","U+DC0A">>, <<"U+D838","U+DC0B">>,
    <<"U+D838","U+DC0C">>, <<"U+D838","U+DC0D">>, <<"U+D838","U+DC0E">>,
    <<"U+D838","U+DC0F">>, <<"U+D838","U+DC10">>, <<"U+D838","U+DC11">>,
    <<"U+D838","U+DC12">>, <<"U+D838","U+DC13">>, <<"U+D838","U+DC14">>,
    <<"U+D838","U+DC15">>, <<"U+D838","U+DC16">>, <<"U+D838","U+DC17">>,
    <<"U+D838","U+DC18">>, <<"U+D838","U+DC1B">>, <<"U+D838","U+DC1C">>,
    <<"U+D838","U+DC1D">>, <<"U+D838","U+DC1E">>, <<"U+D838","U+DC1F">>,
    <<"U+D838","U+DC20">>, <<"U+D838","U+DC21">>, <<"U+D838","U+DC23">>,
    <<"U+D838","U+DC24">>, <<"U+D838","U+DC26">>, <<"U+D838","U+DC27">>,
    <<"U+D838","U+DC28">>, <<"U+D838","U+DC29">>, <<"U+D838","U+DC2A">>,
    <<"U+D838","U+DC30">>, <<"U+D838","U+DC31">>, <<"U+D838","U+DC32">>,
    <<"U+D838","U+DC33">>, <<"U+D838","U+DC34">>, <<"U+D838","U+DC35">>,
    <<"U+D838","U+DC36">>, <<"U+D838","U+DC37">>, <<"U+D838","U+DC38">>,
    <<"U+D838","U+DC39">>, <<"U+D838","U+DC3A">>, <<"U+D838","U+DC3B">>,
    <<"U+D838","U+DC3C">>, <<"U+D838","U+DC3D">>, <<"U+D838","U+DC3E">>,
    <<"U+D838","U+DC3F">>, <<"U+D838","U+DC40">>, <<"U+D838","U+DC41">>,
    <<"U+D838","U+DC42">>, <<"U+D838","U+DC43">>, <<"U+D838","U+DC44">>,
    <<"U+D838","U+DC45">>, <<"U+D838","U+DC46">>, <<"U+D838","U+DC47">>,
    <<"U+D838","U+DC48">>, <<"U+D838","U+DC49">>, <<"U+D838","U+DC4A">>,
    <<"U+D838","U+DC4B">>, <<"U+D838","U+DC4C">>, <<"U+D838","U+DC4D">>,
    <<"U+D838","U+DC4E">>, <<"U+D838","U+DC4F">>, <<"U+D838","U+DC50">>,
    <<"U+D838","U+DC51">>, <<"U+D838","U+DC52">>, <<"U+D838","U+DC53">>,
    <<"U+D838","U+DC54">>, <<"U+D838","U+DC55">>, <<"U+D838","U+DC56">>,
    <<"U+D838","U+DC57">>, <<"U+D838","U+DC58">>, <<"U+D838","U+DC59">>,
    <<"U+D838","U+DC5A">>, <<"U+D838","U+DC5B">>, <<"U+D838","U+DC5C">>,
    <<"U+D838","U+DC5D">>, <<"U+D838","U+DC5E">>, <<"U+D838","U+DC5F">>,
    <<"U+D838","U+DC60">>, <<"U+D838","U+DC61">>, <<"U+D838","U+DC62">>,
    <<"U+D838","U+DC63">>, <<"U+D838","U+DC64">>, <<"U+D838","U+DC65">>,
    <<"U+D838","U+DC66">>, <<"U+D838","U+DC67">>, <<"U+D838","U+DC68">>,
    <<"U+D838","U+DC69">>, <<"U+D838","U+DC6A">>, <<"U+D838","U+DC6B">>,
    <<"U+D838","U+DC6C">>, <<"U+D838","U+DC6D">>, <<"U+D838","U+DC8F">>,
    <<"U+D838","U+DD30">>, <<"U+D838","U+DD31">>, <<"U+D838","U+DD32">>,
    <<"U+D838","U+DD33">>, <<"U+D838","U+DD34">>, <<"U+D838","U+DD35">>,
    <<"U+D838","U+DD36">>, <<"U+D838","U+DD37">>, <<"U+D838","U+DD38">>,
    <<"U+D838","U+DD39">>, <<"U+D838","U+DD3A">>, <<"U+D838","U+DD3B">>,
    <<"U+D838","U+DD3C">>, <<"U+D838","U+DD3D">>, <<"U+D838","U+DEAE">>,
    <<"U+D838","U+DEEC">>, <<"U+D838","U+DEED">>, <<"U+D838","U+DEEE">>,
    <<"U+D838","U+DEEF">>, <<"U+D839","U+DCEB">>, <<"U+D839","U+DCEC">>,
    <<"U+D839","U+DCED">>, <<"U+D839","U+DCEE">>, <<"U+D839","U+DCEF">>,
    <<"U+D839","U+DDEE">>, <<"U+D839","U+DDEF">>, <<"U+D839","U+DEE3">>,
    <<"U+D839","U+DEE6">>, <<"U+D839","U+DEEE">>, <<"U+D839","U+DEEF">>,
    <<"U+D839","U+DEF5">>, <<"U+D839","U+DEFF">>, <<"U+D83A","U+DCD0">>,
    <<"U+D83A","U+DCD1">>, <<"U+D83A","U+DCD2">>, <<"U+D83A","U+DCD3">>,
    <<"U+D83A","U+DCD4">>, <<"U+D83A","U+DCD5">>, <<"U+D83A","U+DCD6">>,
    <<"U+D83A","U+DD44">>, <<"U+D83A","U+DD45">>, <<"U+D83A","U+DD46">>,
    <<"U+D83A","U+DD47">>, <<"U+D83A","U+DD48">>, <<"U+D83A","U+DD49">>,
    <<"U+D83A","U+DD4A">>, <<"U+D83A","U+DD4B">>, <<"U+D83C","U+DFFB">>,
    <<"U+D83C","U+DFFC">>, <<"U+D83C","U+DFFD">>, <<"U+D83C","U+DFFE">>,
    <<"U+D83C","U+DFFF">>, <<"U+DB40","U+DC01">>, <<"U+DB40","U+DC20">>,
    <<"U+DB40","U+DC21">>, <<"U+DB40","U+DC22">>, <<"U+DB40","U+DC23">>,
    <<"U+DB40","U+DC24">>, <<"U+DB40","U+DC25">>, <<"U+DB40","U+DC26">>,
    <<"U+DB40","U+DC27">>, <<"U+DB40","U+DC28">>, <<"U+DB40","U+DC29">>,
    <<"U+DB40","U+DC2A">>, <<"U+DB40","U+DC2B">>, <<"U+DB40","U+DC2C">>,
    <<"U+DB40","U+DC2D">>, <<"U+DB40","U+DC2E">>, <<"U+DB40","U+DC2F">>,
    <<"U+DB40","U+DC30">>, <<"U+DB40","U+DC31">>, <<"U+DB40","U+DC32">>,
    <<"U+DB40","U+DC33">>, <<"U+DB40","U+DC34">>, <<"U+DB40","U+DC35">>,
    <<"U+DB40","U+DC36">>, <<"U+DB40","U+DC37">>, <<"U+DB40","U+DC38">>,
    <<"U+DB40","U+DC39">>, <<"U+DB40","U+DC3A">>, <<"U+DB40","U+DC3B">>,
    <<"U+DB40","U+DC3C">>, <<"U+DB40","U+DC3D">>, <<"U+DB40","U+DC3E">>,
    <<"U+DB40","U+DC3F">>, <<"U+DB40","U+DC40">>, <<"U+DB40","U+DC41">>,
    <<"U+DB40","U+DC42">>, <<"U+DB40","U+DC43">>, <<"U+DB40","U+DC44">>,
    <<"U+DB40","U+DC45">>, <<"U+DB40","U+DC46">>, <<"U+DB40","U+DC47">>,
    <<"U+DB40","U+DC48">>, <<"U+DB40","U+DC49">>, <<"U+DB40","U+DC4A">>,
    <<"U+DB40","U+DC4B">>, <<"U+DB40","U+DC4C">>, <<"U+DB40","U+DC4D">>,
    <<"U+DB40","U+DC4E">>, <<"U+DB40","U+DC4F">>, <<"U+DB40","U+DC50">>,
    <<"U+DB40","U+DC51">>, <<"U+DB40","U+DC52">>, <<"U+DB40","U+DC53">>,
    <<"U+DB40","U+DC54">>, <<"U+DB40","U+DC55">>, <<"U+DB40","U+DC56">>,
    <<"U+DB40","U+DC57">>, <<"U+DB40","U+DC58">>, <<"U+DB40","U+DC59">>,
    <<"U+DB40","U+DC5A">>, <<"U+DB40","U+DC5B">>, <<"U+DB40","U+DC5C">>,
    <<"U+DB40","U+DC5D">>, <<"U+DB40","U+DC5E">>, <<"U+DB40","U+DC5F">>,
    <<"U+DB40","U+DC60">>, <<"U+DB40","U+DC61">>, <<"U+DB40","U+DC62">>,
    <<"U+DB40","U+DC63">>, <<"U+DB40","U+DC64">>, <<"U+DB40","U+DC65">>,
    <<"U+DB40","U+DC66">>, <<"U+DB40","U+DC67">>, <<"U+DB40","U+DC68">>,
    <<"U+DB40","U+DC69">>, <<"U+DB40","U+DC6A">>, <<"U+DB40","U+DC6B">>,
    <<"U+DB40","U+DC6C">>, <<"U+DB40","U+DC6D">>, <<"U+DB40","U+DC6E">>,
    <<"U+DB40","U+DC6F">>, <<"U+DB40","U+DC70">>, <<"U+DB40","U+DC71">>,
    <<"U+DB40","U+DC72">>, <<"U+DB40","U+DC73">>, <<"U+DB40","U+DC74">>,
    <<"U+DB40","U+DC75">>, <<"U+DB40","U+DC76">>, <<"U+DB40","U+DC77">>,
    <<"U+DB40","U+DC78">>, <<"U+DB40","U+DC79">>, <<"U+DB40","U+DC7A">>,
    <<"U+DB40","U+DC7B">>, <<"U+DB40","U+DC7C">>, <<"U+DB40","U+DC7D">>,
    <<"U+DB40","U+DC7E">>, <<"U+DB40","U+DC7F">>, <<"U+DB40","U+DD00">>,
    <<"U+DB40","U+DD01">>, <<"U+DB40","U+DD02">>, <<"U+DB40","U+DD03">>,
    <<"U+DB40","U+DD04">>, <<"U+DB40","U+DD05">>, <<"U+DB40","U+DD06">>,
    <<"U+DB40","U+DD07">>, <<"U+DB40","U+DD08">>, <<"U+DB40","U+DD09">>,
    <<"U+DB40","U+DD0A">>, <<"U+DB40","U+DD0B">>, <<"U+DB40","U+DD0C">>,
    <<"U+DB40","U+DD0D">>, <<"U+DB40","U+DD0E">>, <<"U+DB40","U+DD0F">>,
    <<"U+DB40","U+DD10">>, <<"U+DB40","U+DD11">>, <<"U+DB40","U+DD12">>,
    <<"U+DB40","U+DD13">>, <<"U+DB40","U+DD14">>, <<"U+DB40","U+DD15">>,
    <<"U+DB40","U+DD16">>, <<"U+DB40","U+DD17">>, <<"U+DB40","U+DD18">>,
    <<"U+DB40","U+DD19">>, <<"U+DB40","U+DD1A">>, <<"U+DB40","U+DD1B">>,
    <<"U+DB40","U+DD1C">>, <<"U+DB40","U+DD1D">>, <<"U+DB40","U+DD1E">>,
    <<"U+DB40","U+DD1F">>, <<"U+DB40","U+DD20">>, <<"U+DB40","U+DD21">>,
    <<"U+DB40","U+DD22">>, <<"U+DB40","U+DD23">>, <<"U+DB40","U+DD24">>,
    <<"U+DB40","U+DD25">>, <<"U+DB40","U+DD26">>, <<"U+DB40","U+DD27">>,
    <<"U+DB40","U+DD28">>, <<"U+DB40","U+DD29">>, <<"U+DB40","U+DD2A">>,
    <<"U+DB40","U+DD2B">>, <<"U+DB40","U+DD2C">>, <<"U+DB40","U+DD2D">>,
    <<"U+DB40","U+DD2E">>, <<"U+DB40","U+DD2F">>, <<"U+DB40","U+DD30">>,
    <<"U+DB40","U+DD31">>, <<"U+DB40","U+DD32">>, <<"U+DB40","U+DD33">>,
    <<"U+DB40","U+DD34">>, <<"U+DB40","U+DD35">>, <<"U+DB40","U+DD36">>,
    <<"U+DB40","U+DD37">>, <<"U+DB40","U+DD38">>, <<"U+DB40","U+DD39">>,
    <<"U+DB40","U+DD3A">>, <<"U+DB40","U+DD3B">>, <<"U+DB40","U+DD3C">>,
    <<"U+DB40","U+DD3D">>, <<"U+DB40","U+DD3E">>, <<"U+DB40","U+DD3F">>,
    <<"U+DB40","U+DD40">>, <<"U+DB40","U+DD41">>, <<"U+DB40","U+DD42">>,
    <<"U+DB40","U+DD43">>, <<"U+DB40","U+DD44">>, <<"U+DB40","U+DD45">>,
    <<"U+DB40","U+DD46">>, <<"U+DB40","U+DD47">>, <<"U+DB40","U+DD48">>,
    <<"U+DB40","U+DD49">>, <<"U+DB40","U+DD4A">>, <<"U+DB40","U+DD4B">>,
    <<"U+DB40","U+DD4C">>, <<"U+DB40","U+DD4D">>, <<"U+DB40","U+DD4E">>,
    <<"U+DB40","U+DD4F">>, <<"U+DB40","U+DD50">>, <<"U+DB40","U+DD51">>,
    <<"U+DB40","U+DD52">>, <<"U+DB40","U+DD53">>, <<"U+DB40","U+DD54">>,
    <<"U+DB40","U+DD55">>, <<"U+DB40","U+DD56">>, <<"U+DB40","U+DD57">>,
    <<"U+DB40","U+DD58">>, <<"U+DB40","U+DD59">>, <<"U+DB40","U+DD5A">>,
    <<"U+DB40","U+DD5B">>, <<"U+DB40","U+DD5C">>, <<"U+DB40","U+DD5D">>,
    <<"U+DB40","U+DD5E">>, <<"U+DB40","U+DD5F">>, <<"U+DB40","U+DD60">>,
    <<"U+DB40","U+DD61">>, <<"U+DB40","U+DD62">>, <<"U+DB40","U+DD63">>,
    <<"U+DB40","U+DD64">>, <<"U+DB40","U+DD65">>, <<"U+DB40","U+DD66">>,
    <<"U+DB40","U+DD67">>, <<"U+DB40","U+DD68">>, <<"U+DB40","U+DD69">>,
    <<"U+DB40","U+DD6A">>, <<"U+DB40","U+DD6B">>, <<"U+DB40","U+DD6C">>,
    <<"U+DB40","U+DD6D">>, <<"U+DB40","U+DD6E">>, <<"U+DB40","U+DD6F">>,
    <<"U+DB40","U+DD70">>, <<"U+DB40","U+DD71">>, <<"U+DB40","U+DD72">>,
    <<"U+DB40","U+DD73">>, <<"U+DB40","U+DD74">>, <<"U+DB40","U+DD75">>,
    <<"U+DB40","U+DD76">>, <<"U+DB40","U+DD77">>, <<"U+DB40","U+DD78">>,
    <<"U+DB40","U+DD79">>, <<"U+DB40","U+DD7A">>, <<"U+DB40","U+DD7B">>,
    <<"U+DB40","U+DD7C">>, <<"U+DB40","U+DD7D">>, <<"U+DB40","U+DD7E">>,
    <<"U+DB40","U+DD7F">>, <<"U+DB40","U+DD80">>, <<"U+DB40","U+DD81">>,
    <<"U+DB40","U+DD82">>, <<"U+DB40","U+DD83">>, <<"U+DB40","U+DD84">>,
    <<"U+DB40","U+DD85">>, <<"U+DB40","U+DD86">>, <<"U+DB40","U+DD87">>,
    <<"U+DB40","U+DD88">>, <<"U+DB40","U+DD89">>, <<"U+DB40","U+DD8A">>,
    <<"U+DB40","U+DD8B">>, <<"U+DB40","U+DD8C">>, <<"U+DB40","U+DD8D">>,
    <<"U+DB40","U+DD8E">>, <<"U+DB40","U+DD8F">>, <<"U+DB40","U+DD90">>,
    <<"U+DB40","U+DD91">>, <<"U+DB40","U+DD92">>, <<"U+DB40","U+DD93">>,
    <<"U+DB40","U+DD94">>, <<"U+DB40","U+DD95">>, <<"U+DB40","U+DD96">>,
    <<"U+DB40","U+DD97">>, <<"U+DB40","U+DD98">>, <<"U+DB40","U+DD99">>,
    <<"U+DB40","U+DD9A">>, <<"U+DB40","U+DD9B">>, <<"U+DB40","U+DD9C">>,
    <<"U+DB40","U+DD9D">>, <<"U+DB40","U+DD9E">>, <<"U+DB40","U+DD9F">>,
    <<"U+DB40","U+DDA0">>, <<"U+DB40","U+DDA1">>, <<"U+DB40","U+DDA2">>,
    <<"U+DB40","U+DDA3">>, <<"U+DB40","U+DDA4">>, <<"U+DB40","U+DDA5">>,
    <<"U+DB40","U+DDA6">>, <<"U+DB40","U+DDA7">>, <<"U+DB40","U+DDA8">>,
    <<"U+DB40","U+DDA9">>, <<"U+DB40","U+DDAA">>, <<"U+DB40","U+DDAB">>,
    <<"U+DB40","U+DDAC">>, <<"U+DB40","U+DDAD">>, <<"U+DB40","U+DDAE">>,
    <<"U+DB40","U+DDAF">>, <<"U+DB40","U+DDB0">>, <<"U+DB40","U+DDB1">>,
    <<"U+DB40","U+DDB2">>, <<"U+DB40","U+DDB3">>, <<"U+DB40","U+DDB4">>,
    <<"U+DB40","U+DDB5">>, <<"U+DB40","U+DDB6">>, <<"U+DB40","U+DDB7">>,
    <<"U+DB40","U+DDB8">>, <<"U+DB40","U+DDB9">>, <<"U+DB40","U+DDBA">>,
    <<"U+DB40","U+DDBB">>, <<"U+DB40","U+DDBC">>, <<"U+DB40","U+DDBD">>,
    <<"U+DB40","U+DDBE">>, <<"U+DB40","U+DDBF">>, <<"U+DB40","U+DDC0">>,
    <<"U+DB40","U+DDC1">>, <<"U+DB40","U+DDC2">>, <<"U+DB40","U+DDC3">>,
    <<"U+DB40","U+DDC4">>, <<"U+DB40","U+DDC5">>, <<"U+DB40","U+DDC6">>,
    <<"U+DB40","U+DDC7">>, <<"U+DB40","U+DDC8">>, <<"U+DB40","U+DDC9">>,
    <<"U+DB40","U+DDCA">>, <<"U+DB40","U+DDCB">>, <<"U+DB40","U+DDCC">>,
    <<"U+DB40","U+DDCD">>, <<"U+DB40","U+DDCE">>, <<"U+DB40","U+DDCF">>,
    <<"U+DB40","U+DDD0">>, <<"U+DB40","U+DDD1">>, <<"U+DB40","U+DDD2">>,
    <<"U+DB40","U+DDD3">>, <<"U+DB40","U+DDD4">>, <<"U+DB40","U+DDD5">>,
    <<"U+DB40","U+DDD6">>, <<"U+DB40","U+DDD7">>, <<"U+DB40","U+DDD8">>,
    <<"U+DB40","U+DDD9">>, <<"U+DB40","U+DDDA">>, <<"U+DB40","U+DDDB">>,
    <<"U+DB40","U+DDDC">>, <<"U+DB40","U+DDDD">>, <<"U+DB40","U+DDDE">>,
    <<"U+DB40","U+DDDF">>, <<"U+DB40","U+DDE0">>, <<"U+DB40","U+DDE1">>,
    <<"U+DB40","U+DDE2">>, <<"U+DB40","U+DDE3">>, <<"U+DB40","U+DDE4">>,
    <<"U+DB40","U+DDE5">>, <<"U+DB40","U+DDE6">>, <<"U+DB40","U+DDE7">>,
    <<"U+DB40","U+DDE8">>, <<"U+DB40","U+DDE9">>, <<"U+DB40","U+DDEA">>,
    <<"U+DB40","U+DDEB">>, <<"U+DB40","U+DDEC">>, <<"U+DB40","U+DDED">>,
    <<"U+DB40","U+DDEE">>, <<"U+DB40","U+DDEF">>}

(* the position of the last code unit at or before j that does not belong
   to a case-ignorable character (0 if none) *)
RECURSIVE skipIgnorableBack(_, _)
skipIgnorableBack(s, j) ==
  IF j >= 2 /\ <<s[j - 1], s[j]>> \in CASE_IGNORABLE_PAIRS
    THEN skipIgnorableBack(s, j - 2)
  ELSE IF j >= 1 /\ s[j] \in CASE_IGNORABLE THEN skipIgnorableBack(s, j - 1)
  ELSE j

(* the position of the first code unit at or after j that does not belong
   to a case-ignorable character (Len(s) + 1 if none) *)
RECURSIVE skipIgnorableForward(_, _)
skipIgnorableForward(s, j) ==
  IF j < Len(s) /\ <<s[j], s[j + 1]>> \in CASE_IGNORABLE_PAIRS
    THEN skipIgnorableForward(s, j + 2)
  ELSE IF j <= Len(s) /\ s[j] \in CASE_IGNORABLE
    THEN skipIgnorableForward(s, j + 1)
  ELSE j

(* Final_Sigma: the capital sigma at position i follows a cased character
   and does not precede one, case-ignorable characters aside *)
finalSigma(s, i) ==
  LET b == skipIgnorableBack(s, i - 1)
      f == skipIgnorableForward(s, i + 1)
  IN /\ b >= 1
     /\ \/ s[b] \in CASED
        \/ b >= 2 /\ <<s[b - 1], s[b]>> \in CASED_PAIRS
     /\ ~ /\ f <= Len(s)
          /\ \/ s[f] \in CASED
             \/ f < Len(s) /\ <<s[f], s[f + 1]>> \in CASED_PAIRS

(* the lower case of s from position i on: a cased surrogate pair, capital
   I with dot above (the one character that lowers to two code units),
   capital sigma, any other cased code unit, and everything else kept *)
RECURSIVE lowerFrom(_, _)
lowerFrom(s, i) ==
  IF i > Len(s) THEN <<>>
  ELSE IF /\ i < Len(s)
          /\ \E k \in 1..Len(UPPER_PAIRS) : UPPER_PAIRS[k] = <<s[i], s[i + 1]>>
    THEN LOWER_PAIRS[CHOOSE k \in 1..Len(UPPER_PAIRS) :
                       UPPER_PAIRS[k] = <<s[i], s[i + 1]>>]
         \o lowerFrom(s, i + 2)
  ELSE IF s[i] = "U+0130" THEN <<"i", "U+0307">> \o lowerFrom(s, i + 1)
  ELSE IF s[i] = "U+03A3" /\ finalSigma(s, i)
    THEN <<"U+03C2">> \o lowerFrom(s, i + 1)
  ELSE IF \E k \in 1..Len(UPPER) : UPPER[k] = s[i]
    THEN <<LOWER[CHOOSE k \in 1..Len(UPPER) : UPPER[k] = s[i]]>>
         \o lowerFrom(s, i + 1)
  ELSE <<s[i]>> \o lowerFrom(s, i + 1)

(* String.prototype.toLowerCase; in an ASCII string only A-Z, the first 26
   entries of UPPER, change *)
toLowerCase(s) ==
  IF \A i \in 1..Len(s) : s[i] \in ASCII
    THEN [i \in 1..Len(s) |->
            IF \E k \in 1..26 : UPPER[k] = s[i]
              THEN LOWER[CHOOSE k \in 1..26 : UPPER[k] = s[i]]
              ELSE s[i]]
    ELSE lowerFrom(s, 1)

----------------------------------------------------------------------------
(* process.env                                                             *)

(* process.env.X !== undefined *)
isSet(e, name) == name \in DOMAIN e
(* process.env.X === lit *)
envIs(e, name, lit) == name \in DOMAIN e /\ e[name] = lit
(* process.env.X used as a condition: set and not the empty string *)
truthy(e, name) == name \in DOMAIN e /\ e[name] # <<>>
(* process.env.X ?? "" *)
envOr(e, name) == IF name \in DOMAIN e THEN e[name] ELSE <<>>

(* the code units U+D800..U+DBFF and U+DC00..U+DFFF *)
HighSurrogates ==
  LET hex == {"0", "1", "2", "3", "4", "5", "6", "7", "8", "9", "A", "B",
              "C", "D", "E", "F"}
  IN {"U+D" \o a \o b \o c : a \in {"8", "9", "A", "B"}, b \in hex, c \in hex}

LowSurrogates ==
  LET hex == {"0", "1", "2", "3", "4", "5", "6", "7", "8", "9", "A", "B",
              "C", "D", "E", "F"}
  IN {"U+D" \o a \o b \o c : a \in {"C", "D", "E", "F"}, b \in hex, c \in hex}

(* the string process.env keeps for an assigned string: the environment
   holds C strings in UTF-8, so the value ends before its first U+0000 and
   a surrogate that is not part of a pair becomes U+FFFD *)
RECURSIVE envValue(_, _)
envValue(v, i) ==
  IF i > Len(v) \/ v[i] = "U+0000" THEN <<>>
  ELSE IF v[i] \in HighSurrogates /\ i < Len(v) /\ v[i + 1] \in LowSurrogates
    THEN <<v[i], v[i + 1]>> \o envValue(v, i + 2)
  ELSE IF v[i] \in HighSurrogates \cup LowSurrogates
    THEN <<"U+FFFD">> \o envValue(v, i + 1)
  ELSE <<v[i]>> \o envValue(v, i + 1)

(* process.env.X = v  and  delete process.env.X; an ASCII string is kept
   as it is *)
setEnv(e, name, v) ==
  [n \in DOMAIN e \cup {name} |->
     IF n # name THEN e[n]
     ELSE IF \A i \in 1..Len(v) : v[i] \in ASCII THEN v
     ELSE envValue(v, 1)]
deleteEnv(e, name) == [n \in DOMAIN e \ {name} |-> e[n]]

----------------------------------------------------------------------------
(* detection.ts                                                            *)

detectCursor(out, e) ==
  IF ~out.isTTY THEN FALSE
  ELSE IF envIs(e, "TERM", S_dumb) THEN FALSE
  ELSE TRUE

detectInput(inp) ==
  IF ~inp.isTTY THEN FALSE
  ELSE inp.setRawMode

(* variant of CI_ENVS that forgets one CI indicator *)
CI_ENVS_noTravis ==
  {"CI", "GITHUB_ACTIONS", "GITLAB_CI", "JENKINS_URL", "BUILDKITE",
   "CIRCLECI"}

CI_ENVS ==
  {"CI", "GITHUB_ACTIONS", "GITLAB_CI", "JENKINS_URL", "BUILDKITE",
   "CIRCLECI", "TRAVIS"}

(* the FORCE_COLOR branch of detectColor; "null" stands for null *)
forceColorLevel(forceColor) ==
  IF forceColor = S_0 \/ forceColor = S_false THEN "null"
  ELSE IF forceColor = S_1 THEN "basic"
  ELSE IF forceColor = S_2 THEN "256"
  ELSE IF forceColor = S_3 THEN "truecolor"
  ELSE "basic"

(* "Known truecolor terminals" test on TERM *)
isTruecolorTerm(term) ==
  \/ includes(term, S_truecolor)
  \/ includes(term, S_24bit)
  \/ includes(term, S_xterm_ghostty)
  \/ includes(term, S_xterm_kitty)
  \/ includes(term, S_wezterm)

(* the heuristics of detectColor that follow the TTY and "dumb" tests *)
detectColorHeuristic(e) ==
  LET colorTerm   == envOr(e, "COLORTERM")
      term        == envOr(e, "TERM")
      termProgram == envOr(e, "TERM_PROGRAM")
  IN
  IF envIs(e, "COLORTERM", S_truecolor) \/ envIs(e, "COLORTERM", S_24bit)
    THEN "truecolor"
  ELSE IF isTruecolorTerm(term) THEN "truecolor"
  ELSE IF includes(term, S_256color) \/ includes(term, S_256) THEN "256"
  ELSE IF envIs(e, "TERM_PROGRAM", S_iTerm_app)
          \/ envIs(e, "TERM_PROGRAM", S_Apple_Terminal)
    THEN (IF termProgram = S_iTerm_app THEN "truecolor" ELSE "256")
  ELSE IF envIs(e, "TERM_PROGRAM", S_Ghostty)
          \/ envIs(e, "TERM_PROGRAM", S_WezTerm)
    THEN "truecolor"
  ELSE IF truthy(e, "KITTY_WINDOW_ID") THEN "truecolor"
  ELSE IF includes(term, S_xterm) \/ includes(term, S_color)
          \/ includes(term, S_ansi)
    THEN "basic"
  ELSE IF \E v \in CI_ENVS : isSet(e, v) THEN "basic"
  ELSE IF truthy(e, "WT_SESSION") THEN "truecolor"
  ELSE "basic"

(* variant of detectColor that tests NO_COLOR for truthiness *)
detectColor_noColorTruthy(out, e) ==
  IF truthy(e, "NO_COLOR") THEN "null"
  ELSE IF isSet(e, "FORCE_COLOR") THEN forceColorLevel(e["FORCE_COLOR"])
  ELSE IF ~out.isTTY THEN "null"
  ELSE IF envIs(e, "TERM", S_dumb) THEN "null"
  ELSE detectColorHeuristic(e)

(* variant of detectColor that tests the stream before FORCE_COLOR *)
detectColor_ttyFirst(out, e) ==
  IF isSet(e, "NO_COLOR") THEN "null"
  ELSE IF ~out.isTTY THEN "null"
  ELSE IF isSet(e, "FORCE_COLOR") THEN forceColorLevel(e["FORCE_COLOR"])
  ELSE IF envIs(e, "TERM", S_dumb) THEN "null"
  ELSE detectColorHeuristic(e)

detectColor(out, e) ==
  IF isSet(e, "NO_COLOR") THEN "null"
  ELSE IF isSet(e, "FORCE_COLOR") THEN forceColorLevel(e["FORCE_COLOR"])
  ELSE IF ~out.isTTY THEN "null"
  ELSE IF envIs(e, "TERM", S_dumb) THEN "null"
  ELSE detectColorHeuristic(e)

(* variant of detectUnicode whose TERM test also accepts "ansi" *)
detectUnicode_ansiTerm(e) ==
  IF truthy(e, "CI") /\ truthy(e, "GITHUB_ACTIONS") THEN TRUE
  ELSE
  LET lang == IF isSet(e, "LANG") THEN e["LANG"]
              ELSE IF isSet(e, "LC_ALL") THEN e["LC_ALL"]
              ELSE IF isSet(e, "LC_CTYPE") THEN e["LC_CTYPE"]
              ELSE <<>>
      termProgram == envOr(e, "TERM_PROGRAM")
      term        == envOr(e, "TERM")
  IN
  IF includes(toLowerCase(lang), S_utf_8) \/ includes(toLowerCase(lang), S_utf8)
    THEN TRUE
  ELSE IF truthy(e, "WT_SESSION") THEN TRUE
  ELSE IF termProgram \in {S_iTerm_app, S_Ghostty, S_WezTerm, S_Apple_Terminal}
    THEN TRUE
  ELSE IF truthy(e, "KITTY_WINDOW_ID") THEN TRUE
  ELSE IF includes(term, S_xterm) \/ includes(term, S_ansi) \/ includes(term, S_rxvt)
          \/ includes(term, S_screen) \/ includes(term, S_tmux)
    THEN TRUE
  ELSE FALSE

detectUnicode(e) ==
  IF truthy(e, "CI") /\ truthy(e, "GITHUB_ACTIONS") THEN TRUE
  ELSE
  LET lang == IF isSet(e, "LANG") THEN e["LANG"]
              ELSE IF isSet(e, "LC_ALL") THEN e["LC_ALL"]
              ELSE IF isSet(e, "LC_CTYPE") THEN e["LC_CTYPE"]
              ELSE <<>>
      termProgram == envOr(e, "TERM_PROGRAM")
      term        == envOr(e, "TERM")
  IN
  IF includes(toLowerCase(lang), S_utf_8) \/ includes(toLowerCase(lang), S_utf8)
    THEN TRUE
  ELSE IF truthy(e, "WT_SESSION") THEN TRUE
  ELSE IF termProgram \in {S_iTerm_app, S_Ghostty, S_WezTerm, S_Apple_Terminal}
    THEN TRUE
  ELSE IF truthy(e, "KITTY_WINDOW_ID") THEN TRUE
  ELSE IF includes(term, S_xterm) \/ includes(term, S_rxvt)
          \/ includes(term, S_screen) \/ includes(term, S_tmux)
    THEN TRUE
  ELSE FALSE

----------------------------------------------------------------------------
(* Control characters, each one element of a string.                       *)
ESC == "ESC"    \* \x1b
LF  == "LF"     \* \n
CR  == "CR"     \* \r
BACKSLASH == "BACKSLASH"

DigitChars == <<"0", "1", "2", "3", "4", "5", "6", "7", "8", "9">>

(* decimal text of a non-negative integer, as in a template literal *)
RECURSIVE toString(_)
toString(n) ==
  IF n < 10 THEN <<DigitChars[n + 1]>>
  ELSE toString(n \div 10) \o <<DigitChars[(n % 10) + 1]>>

(* String.prototype.indexOf(sub, from), 1-based; 0 when there is none *)
indexOf(s, sub, from) ==
  LET hits == {i \in from..(Len(s) - Len(sub) + 1) :
                 SubSeq(s, i, i + Len(sub) - 1) = sub}
  IN IF hits = {} THEN 0 ELSE CHOOSE i \in hits : \A j \in hits : i <= j

slice(s, from) == SubSeq(s, from, Len(s))

----------------------------------------------------------------------------
(* term.ts: ANSI_REGEX and stripAnsi.                                      *)
(*   /\x1b\[[0-9;:]*m|\x1b\]8;;[^\x1b]*\x1b\\/g                            *)

SgrParamChars == {"0", "1", "2", "3", "4", "5", "6", "7", "8", "9", ";", ":"}

(* first position >= i of s that is not in the class (Len(s)+1 if none) *)
RECURSIVE skipWhile(_, _, _)
skipWhile(s, i, inClass) ==
  IF i > Len(s) \/ ~inClass[s[i]] THEN i ELSE skipWhile(s, i + 1, inClass)

(* variant of matchAnsiAt whose first alternative does not require the
   final "m" *)
matchAnsiAt_sgrNoM(s, i) ==
  LET chars == {s[k] : k \in 1..Len(s)}
      sgrEnd == skipWhile(s, i + 2, [c \in chars |-> c \in SgrParamChars])
      oscEnd == skipWhile(s, i + 5, [c \in chars |-> c # ESC])
  IN
  IF s[i] # ESC THEN 0
  ELSE IF i + 1 <= Len(s) /\ s[i + 1] = "["
    THEN (IF sgrEnd <= Len(s) /\ s[sgrEnd] = "m" THEN sgrEnd ELSE sgrEnd - 1)
  ELSE IF /\ i + 4 <= Len(s)
          /\ SubSeq(s, i + 1, i + 4) = <<"]", "8", ";", ";">>
          /\ oscEnd + 1 <= Len(s)
          /\ s[oscEnd] = ESC /\ s[oscEnd + 1] = BACKSLASH
    THEN oscEnd + 1
  ELSE 0

(* end of the match of ANSI_REGEX that starts at position i, 0 if none *)
matchAnsiAt(s, i) ==
  LET chars == {s[k] : k \in 1..Len(s)}
      sgrEnd == skipWhile(s, i + 2, [c \in chars |-> c \in SgrParamChars])
      oscEnd == skipWhile(s, i + 5, [c \in chars |-> c # ESC])
  IN
  IF s[i] # ESC THEN 0
  ELSE IF i + 1 <= Len(s) /\ s[i + 1] = "[" /\ sgrEnd <= Len(s) /\ s[sgrEnd] = "m"
    THEN sgrEnd
  ELSE IF /\ i + 4 <= Len(s)
          /\ SubSeq(s, i + 1, i + 4) = <<"]", "8", ";", ";">>
          /\ oscEnd + 1 <= Len(s)
          /\ s[oscEnd] = ESC /\ s[oscEnd + 1] = BACKSLASH
    THEN oscEnd + 1
  ELSE 0

(* variant of stripFrom that drops an ESC at which nothing matches *)
RECURSIVE stripFrom_dropEsc(_, _)
stripFrom_dropEsc(s, i) ==
  IF i > Len(s) THEN <<>>
  ELSE LET e == matchAnsiAt(s, i)
       IN IF e = 0 THEN (IF s[i] = ESC THEN <<>> ELSE <<s[i]>>)
                           \o stripFrom_dropEsc(s, i + 1)
          ELSE stripFrom_dropEsc(s, e + 1)

(* text.replace(ANSI_REGEX, "") scanning from position i *)
RECURSIVE stripFrom(_, _)
stripFrom(s, i) ==
  IF i > Len(s) THEN <<>>
  ELSE LET e == matchAnsiAt(s, i)
       IN IF e = 0 THEN <<s[i]>> \o stripFrom(s, i + 1)
          ELSE stripFrom(s, e + 1)

stripAnsi(text) == stripFrom(text, 1)

----------------------------------------------------------------------------
(* The chalk instance that term.ts wraps (new Chalk({level})): styles are  *)
(* pairs of SGR codes, a builder carries the stylers of its ancestors.     *)

sgr(n) == <<ESC, "[">> \o toString(n) \o <<"m">>

(* open and close codes of the style names of ChalkStyleName *)
ansiStyles ==
  [reset |-> <<0, 0>>, bold |-> <<1, 22>>, dim |-> <<2, 22>>,
   italic |-> <<3, 23>>, underline |-> <<4, 24>>, overline |-> <<53, 55>>,
   inverse |-> <<7, 27>>, hidden |-> <<8, 28>>, strikethrough |-> <<9, 29>>,
   black |-> <<30, 39>>, red |-> <<31, 39>>, green |-> <<32, 39>>,
   yellow |-> <<33, 39>>, blue |-> <<34, 39>>, magenta |-> <<35, 39>>,
   cyan |-> <<36, 39>>, white |-> <<37, 39>>,
   gray |-> <<90, 39>>, grey |-> <<90, 39>>, blackBright |-> <<90, 39>>,
   redBright |-> <<91, 39>>, greenBright |-> <<92, 39>>,
   yellowBright |-> <<93, 39>>, blueBright |-> <<94, 39>>,
   magentaBright |-> <<95, 39>>, cyanBright |-> <<96, 39>>,
   whiteBright |-> <<97, 39>>,
   bgBlack |-> <<40, 49>>, bgRed |-> <<41, 49>>, bgGreen |-> <<42, 49>>,
   bgYellow |-> <<43, 49>>, bgBlue |-> <<44, 49>>, bgMagenta |-> <<45, 49>>,
   bgCyan |-> <<46, 49>>, bgWhite |-> <<47, 49>>,
   bgGray |-> <<100, 49>>, bgGrey |-> <<100, 49>>,
   bgBlackBright |-> <<100, 49>>, bgRedBright |-> <<101, 49>>,
   bgGreenBright |-> <<102, 49>>, bgYellowBright |-> <<103, 49>>,
   bgBlueBright |-> <<104, 49>>, bgMagentaBright |-> <<105, 49>>,
   bgCyanBright |-> <<106, 49>>, bgWhiteBright |-> <<107, 49>>]

(* ChalkStyleName: the names above and "visible", which has no codes *)
ChalkStyleName == DOMAIN ansiStyles \cup {"visible"}

ColorModels == {"rgb", "hex", "ansi256", "bgRgb", "bgHex", "bgAnsi256"}

(* variant of createStyler that appends the close code to the parent's *)
createStyler_closeOrder(open, close, parent) ==
  IF parent = <<>>
    THEN <<[open |-> open, close |-> close, openAll |-> open, closeAll |-> close]>>
    ELSE Append(parent,
                [open |-> open, close |-> close,
                 openAll  |-> parent[Len(parent)].openAll \o open,
                 closeAll |-> parent[Len(parent)].closeAll \o close])

(* a styler knows its own codes and the accumulated codes of the chain;
   the parent of stylers[k] is stylers[k-1], <<>> is "no styler" *)
createStyler(open, close, parent) ==
  IF parent = <<>>
    THEN <<[open |-> open, close |-> close, openAll |-> open, closeAll |-> close]>>
    ELSE Append(parent,
                [open |-> open, close |-> close,
                 openAll  |-> parent[Len(parent)].openAll \o open,
                 closeAll |-> close \o parent[Len(parent)].closeAll])

(* Math.round(x / 255 * 5) *)
round5(x) == (10 * x + 255) \div 510

rgbToAnsi256(r, g, b) ==
  IF r = g /\ g = b
    THEN IF r < 8 THEN 16
         ELSE IF r > 248 THEN 231
         ELSE ((48 * (r - 8) + 247) \div 494) + 232
    ELSE 16 + 36 * round5(r) + 6 * round5(g) + round5(b)

max3(a, b, c) == IF a >= b /\ a >= c THEN a ELSE IF b >= c THEN b ELSE c

ansi256ToAnsi(code) ==
  IF code < 8 THEN 30 + code
  ELSE IF code < 16 THEN 90 + (code - 8)
  ELSE IF code >= 232
    THEN \* grey ramp: red = green = blue = ((code - 232) * 10 + 8) / 255
         LET bit == IF 2 * ((code - 232) * 10 + 8) >= 255 THEN 1 ELSE 0
         IN 30 + 4 * bit + 2 * bit + bit
  ELSE LET c   == code - 16
           r5  == c \div 36              \* red * 5
           g5  == (c % 36) \div 6        \* green * 5
           b5  == (c % 36) % 6           \* blue * 5
           m5  == max3(r5, g5, b5)
           rnd(x5) == IF 2 * x5 >= 5 THEN 1 ELSE 0
           base == 30 + 4 * rnd(b5) + 2 * rnd(g5) + rnd(r5)
       IN IF m5 = 0 THEN 30
          ELSE IF m5 = 5 THEN base + 60
          ELSE base

rgbToAnsi(r, g, b) == ansi256ToAnsi(rgbToAnsi256(r, g, b))

HexChars == <<"0", "1", "2", "3", "4", "5", "6", "7", "8", "9",
              "a", "b", "c", "d", "e", "f", "A", "B", "C", "D", "E", "F">>
isHex(c) == \E k \in 1..22 : HexChars[k] = c
hexVal(c) ==
  LET k == CHOOSE x \in 1..22 : HexChars[x] = c
  IN IF k > 16 THEN k - 7 ELSE k - 1

(* /[a-f\d]{6}|[a-f\d]{3}/i.exec(hex): first position with six (else
   three) hex digits of either case (without the u flag no character
   outside ASCII folds to a letter a-f); Number.parseInt(..., 16) reads
   both cases; no match gives [0, 0, 0] *)
hexToRgb(hex) ==
  LET h == hex
      run(i, n) == i + n - 1 <= Len(h) /\ \A k \in i..(i + n - 1) : isHex(h[k])
      starts == {i \in 1..Len(h) : run(i, 6) \/ run(i, 3)}
  IN IF starts = {} THEN <<0, 0, 0>>
     ELSE LET i == CHOOSE x \in starts : \A y \in starts : x <= y
          IN IF run(i, 6)
               THEN <<16 * hexVal(h[i]) + hexVal(h[i + 1]),
                      16 * hexVal(h[i + 2]) + hexVal(h[i + 3]),
                      16 * hexVal(h[i + 4]) + hexVal(h[i + 5])>>
               ELSE <<17 * hexVal(h[i]), 17 * hexVal(h[i + 1]),
                      17 * hexVal(h[i + 2])>>

(* the opening code of rgb / hex / ansi256 at a chalk level (0..3);
   offset is 0 for a foreground and 10 for a background color *)
getModelAnsi(model, level, offset, args) ==
  LET rgb == IF model = "hex" THEN hexToRgb(args) ELSE args
  IN
  IF model \in {"rgb", "hex"}
    THEN IF level = 3
           THEN <<ESC, "[">> \o toString(38 + offset) \o <<";", "2", ";">>
                \o toString(rgb[1]) \o <<";">> \o toString(rgb[2])
                \o <<";">> \o toString(rgb[3]) \o <<"m">>
         ELSE IF level = 2
           THEN <<ESC, "[">> \o toString(38 + offset) \o <<";", "5", ";">>
                \o toString(rgbToAnsi256(rgb[1], rgb[2], rgb[3])) \o <<"m">>
         ELSE sgr(rgbToAnsi(rgb[1], rgb[2], rgb[3]) + offset)
    ELSE <<ESC, "[">> \o toString(38 + offset) \o <<";", "5", ";">>
         \o toString(args) \o <<"m">>

(* stringReplaceAll of chalk: after every occurrence of substring insert
   replacer *)
RECURSIVE stringReplaceAll(_, _, _)
stringReplaceAll(string, substring, replacer) ==
  LET index == indexOf(string, substring, 1)
  IN IF index = 0 THEN string
     ELSE SubSeq(string, 1, index - 1) \o substring \o replacer
          \o stringReplaceAll(slice(string, index + Len(substring)),
                              substring, replacer)

(* stringEncaseCRLFWithFirstIndex of chalk: close before and reopen after
   every line break *)
RECURSIVE stringEncaseCRLFWithFirstIndex(_, _, _, _)
stringEncaseCRLFWithFirstIndex(string, prefix, postfix, index) ==
  LET gotCR == index > 1 /\ string[index - 1] = CR
      head  == SubSeq(string, 1, IF gotCR THEN index - 2 ELSE index - 1)
               \o prefix \o (IF gotCR THEN <<CR, LF>> ELSE <<LF>>) \o postfix
      rest  == slice(string, index + 1)
      next  == indexOf(rest, <<LF>>, 1)
  IN IF next = 0 THEN head \o rest
     ELSE head \o stringEncaseCRLFWithFirstIndex(rest, prefix, postfix, next)

RECURSIVE reopenClosed(_, _, _)
reopenClosed(string, stylers, k) ==
  IF k = 0 THEN string
  ELSE reopenClosed(stringReplaceAll(string, stylers[k].close, stylers[k].open),
                    stylers, k - 1)

(* applyStyle of chalk: what calling a builder on a string returns *)
applyStyle(self, level, string) ==
  IF level <= 0 \/ string = <<>>
    THEN (IF self.isEmpty THEN <<>> ELSE string)
  ELSE IF self.styler = <<>> THEN string
  ELSE LET top == self.styler[Len(self.styler)]
           s1  == IF \E i \in 1..Len(string) : string[i] = ESC
                    THEN reopenClosed(string, self.styler, Len(self.styler))
                    ELSE string
           lf  == indexOf(s1, <<LF>>, 1)
           s2  == IF lf # 0
                    THEN stringEncaseCRLFWithFirstIndex(s1, top.closeAll,
                                                        top.openAll, lf)
                    ELSE s1
       IN top.openAll \o s2 \o top.closeAll

----------------------------------------------------------------------------
(* term.ts: createTerm and the chain proxy.                                *)

(* variant of chalkLevel that treats null like "basic" *)
chalkLevel_nullBasic(cachedColor) ==
  IF cachedColor = "null" THEN 1
  ELSE IF cachedColor = "basic" THEN 1
  ELSE IF cachedColor = "256" THEN 2
  ELSE 3

(* the level given to new Chalk({level}) *)
chalkLevel(cachedColor) ==
  IF cachedColor = "null" THEN 0
  ELSE IF cachedColor = "basic" THEN 1
  ELSE IF cachedColor = "256" THEN 2
  ELSE 3

NoOptions ==
  [stdout |-> "undefined", stdin |-> "undefined", cursor |-> "undefined",
   color |-> "undefined", unicode |-> "undefined"]

(* variant of createTerm that writes options.color ?? detectColor(stdout) *)
createTerm_colorNullish(options, e, outs, ins) ==
  LET out == IF options.stdout = "undefined" THEN "process.stdout" ELSE options.stdout
      inp == IF options.stdin = "undefined" THEN "process.stdin" ELSE options.stdin
      cachedColor == IF options.color \in {"undefined", "null"}
                       THEN detectColor(outs[out], e) ELSE options.color
  IN [stdout |-> out, stdin |-> inp,
      cachedCursor  |-> IF options.cursor = "undefined"
                          THEN detectCursor(outs[out], e)
                          ELSE options.cursor = "true",
      cachedInput   |-> detectInput(ins[inp]),
      cachedColor   |-> cachedColor,
      cachedUnicode |-> IF options.unicode = "undefined"
                          THEN detectUnicode(e)
                          ELSE options.unicode = "true",
      chalkLevel    |-> chalkLevel(cachedColor),
      options       |-> options,
      disposed      |-> FALSE]

(* the closure createTerm builds: its options, the streams it uses, the
   cached detection results, the level of its chalk instance, the
   disposed flag *)
createTerm(options, e, outs, ins) ==
  LET out == IF options.stdout = "undefined" THEN "process.stdout" ELSE options.stdout
      inp == IF options.stdin = "undefined" THEN "process.stdin" ELSE options.stdin
      cachedColor == IF options.color # "undefined"
                       THEN options.color ELSE detectColor(outs[out], e)
  IN [stdout |-> out, stdin |-> inp,
      cachedCursor  |-> IF options.cursor = "undefined"
                          THEN detectCursor(outs[out], e)
                          ELSE options.cursor = "true",
      cachedInput   |-> detectInput(ins[inp]),
      cachedColor   |-> cachedColor,
      cachedUnicode |-> IF options.unicode = "undefined"
                          THEN detectUnicode(e)
                          ELSE options.unicode = "true",
      chalkLevel    |-> chalkLevel(cachedColor),
      options       |-> options,
      disposed      |-> FALSE]

(* termBase.hasCursor / hasInput / hasUnicode: the cached values *)
hasCursor(t) == t.cachedCursor
hasInput(t) == t.cachedInput
hasUnicode(t) == t.cachedUnicode

(* variant of hasColor that runs detection again on every call *)
hasColor_live(t) == detectColor(stdout[t.stdout], env)

(* termBase.hasColor *)
hasColor(t) == t.cachedColor

(* the chalk instance of a new Term: no styler, and no IS_EMPTY (isEmpty
   is TRUE for true and FALSE for undefined, the two values it has) *)
rootChalk == [styler |-> <<>>, isEmpty |-> FALSE]

(* a chain proxy: the chalk builder it wraps and the termBase it shares;
   path is history, the accesses that led from the Term to this chain *)
createChainProxy(currentChalk, termBase, path) ==
  [chalk |-> currentChalk, termBase |-> termBase, path |-> path]

(* currentChalk[name] for a style name *)
styleGetter(currentChalk, name) ==
  IF name = "visible"
    THEN [styler |-> currentChalk.styler, isEmpty |-> TRUE]
    ELSE [styler |-> createStyler(sgr(ansiStyles[name][1]),
                                  sgr(ansiStyles[name][2]),
                                  currentChalk.styler),
          isEmpty |-> currentChalk.isEmpty]

(* currentChalk[model](...args) for rgb, hex, ansi256 and bg variants *)
modelCall(currentChalk, level, model, args) ==
  LET bg   == model \in {"bgRgb", "bgHex", "bgAnsi256"}
      base == IF model \in {"rgb", "bgRgb"} THEN "rgb"
              ELSE IF model \in {"hex", "bgHex"} THEN "hex" ELSE "ansi256"
  IN [styler |-> createStyler(getModelAnsi(base, level, IF bg THEN 10 ELSE 0, args),
                              sgr(IF bg THEN 49 ELSE 39),
                              currentChalk.styler),
      isEmpty |-> currentChalk.isEmpty]

Undefined == [type |-> "undefined"]
Number(n) == [type |-> "number", value |-> n]

(* the accessors createTerm defines on the Term with Object.defineProperty *)
colsGetter(t, outs) ==
  IF outs[t.stdout].isTTY THEN Number(outs[t.stdout].columns) ELSE Undefined
rowsGetter(t, outs) ==
  IF outs[t.stdout].isTTY THEN Number(outs[t.stdout].rows) ELSE Undefined

TermBaseKeys ==
  {"hasCursor", "hasInput", "hasColor", "hasUnicode", "stdout", "stdin",
   "write", "writeLine", "stripAnsi", "Symbol.dispose"}

(* the names termBase, an object literal, inherits from Object.prototype:
   `prop in termBase` holds for them as for its own keys *)
ObjectPrototypeMethods ==
  {"constructor", "hasOwnProperty", "isPrototypeOf", "propertyIsEnumerable",
   "toLocaleString", "toString", "valueOf", "__defineGetter__",
   "__defineSetter__", "__lookupGetter__", "__lookupSetter__"}

(* Symbol keys are written by name.  Symbol.dispose is a key of termBase;
   Symbol(GENERATOR), Symbol(STYLER) and Symbol(IS_EMPTY) are the own
   symbol keys of a styled builder, which Object.assign copies onto the
   proxy target; the others are the well-known symbols a read can name. *)
SymbolKeys ==
  {"Symbol(GENERATOR)", "Symbol(STYLER)", "Symbol(IS_EMPTY)",
   "Symbol.dispose", "Symbol.asyncDispose", "Symbol.hasInstance",
   "Symbol.iterator", "Symbol.asyncIterator", "Symbol.toPrimitive",
   "Symbol.toStringTag", "Symbol.species", "Symbol.unscopables",
   "Symbol.isConcatSpreadable", "Symbol.match", "Symbol.matchAll",
   "Symbol.replace", "Symbol.search", "Symbol.split"}

(* Reflect.get(target, prop, receiver) for a symbol key: the target is
   Object.assign(function () {}, currentChalk), a function carrying the own
   enumerable properties of currentChalk; only a styled builder has symbol
   keys of its own, the chalk instance of the Term has none.  A builder's
   IS_EMPTY is true from "visible" on and undefined before; its GENERATOR
   is the builder it was made from, the one the parent chain wraps: the
   chalk instance for a chain made from the Term, else a builder with the
   styler and IS_EMPTY this one had before its last access *)
reflectGet(chs, c, prop) ==
  IF chs[c].path # <<>> /\ prop = "Symbol(STYLER)"
    THEN IF chs[c].chalk.styler = <<>> THEN Undefined
         ELSE [type |-> "styler",
               value |-> chs[c].chalk.styler[Len(chs[c].chalk.styler)]]
  ELSE IF chs[c].path # <<>> /\ prop = "Symbol(IS_EMPTY)"
    THEN IF chs[c].chalk.isEmpty THEN [type |-> "boolean", value |-> TRUE]
         ELSE Undefined
  ELSE IF chs[c].path # <<>> /\ prop = "Symbol(GENERATOR)"
    THEN LET path == chs[c].path
             styler == chs[c].chalk.styler
         IN IF Len(path) = 1 THEN [type |-> "object", value |-> "chalkInstance"]
            ELSE [type |-> "function", value |-> "builder",
                  chalk |->
                    [styler |-> IF path[Len(path)] = "visible" THEN styler
                                ELSE SubSeq(styler, 1, Len(styler) - 1),
                     isEmpty |-> \E k \in 1..(Len(path) - 1) :
                                    path[k] = "visible"]]
  ELSE IF prop = "Symbol.hasInstance"
    THEN [type |-> "function", inheritedFrom |-> "Function.prototype",
          name |-> prop]
  ELSE Undefined

(* get trap of the proxy handler: what reading chain[prop] returns.  A
   string key is answered from termBase (own and inherited names) and from
   currentChalk, never from the proxy target, where the cols and rows
   accessors were defined; a symbol key that termBase does not have is
   read from the target.  Besides the styles, the colour models and level,
   currentChalk, an arrow function, has the methods of Function.prototype,
   its own length and name, and the caller and arguments accessors, which
   throw when read on such a function. *)
proxyGet(chs, trms, c, prop) ==
  IF prop \in TermBaseKeys THEN [type |-> "termBase", key |-> prop]
  ELSE IF prop \in ObjectPrototypeMethods
    THEN [type |-> "function", inheritedFrom |-> "Object.prototype", name |-> prop]
  ELSE IF prop = "__proto__"
    THEN [type |-> "object", value |-> "Object.prototype"]
  ELSE IF prop \in SymbolKeys THEN reflectGet(chs, c, prop)
  ELSE IF prop \in ColorModels THEN [type |-> "function", model |-> prop]
  ELSE IF prop \in ChalkStyleName THEN [type |-> "chain", style |-> prop]
  ELSE IF prop = "level" THEN Number(trms[chs[c].termBase].chalkLevel)
  ELSE IF prop \in {"call", "bind", "apply"}
    THEN [type |-> "chain", wraps |-> "Function.prototype", name |-> prop]
  ELSE IF prop = "length" THEN Number(0)
  ELSE IF prop = "name"
    THEN [type |-> "string",
          value |-> IF chs[c].path = <<>> THEN <<"c", "h", "a", "l", "k">>
                    ELSE <<"b", "u", "i", "l", "d", "e", "r">>]
  ELSE IF prop \in {"caller", "arguments"}
    THEN [type |-> "throw", error |-> "TypeError"]
  ELSE Undefined

(* variant of the get trap that restyles the accessed chain itself *)
getChain_inPlace(chs, c, newChalk, access) ==
  Append([chs EXCEPT ![c].chalk = newChalk],
         createChainProxy(newChalk, chs[c].termBase, Append(chs[c].path, access)))

(* get trap, chaining branches: the accessed chain c is left alone and a
   new proxy around newChalk, sharing termBase, is returned *)
getChain(chs, c, newChalk, access) ==
  Append(chs,
         createChainProxy(newChalk, chs[c].termBase, Append(chs[c].path, access)))

(* apply trap: currentChalk(text) at the level of the Term's chalk instance *)
applyChain(chs, trms, c, text) ==
  applyStyle(chs[c].chalk, trms[chs[c].termBase].chalkLevel, text)

----------------------------------------------------------------------------
(* Environments and streams the detection functions are called on.         *)

NoCall == [op |-> "none"]

(* module state after import: let _supportsExtendedUnderline = null, and the
   default chalk instance at the level chalk detected for the process *)
InitialGlobals == [supportsExtendedUnderline |-> "null", chalkLevel |-> 3]

(* patch-console.ts: the method names, and the console before any patch *)
METHODS == {"log", "info", "warn", "error", "debug"}

native(method) == [kind |-> "native", patch |-> 0, method |-> method]

interceptor(p, method) == [kind |-> "interceptor", patch |-> p, method |-> method]

InitialConsole ==
  [methods |-> [m \in METHODS |-> native(m)], output |-> <<>>, calls |-> <<>>]

(* candidate values of each variable; index 0 of a choice means "unset" *)
DetectCands ==
  [NO_COLOR        |-> <<S_empty, S_1>>,
   FORCE_COLOR     |-> <<S_empty, S_0, S_1, S_2, S_3, S_false, S_true>>,
   COLORTERM       |-> <<S_truecolor, S_24bit, S_256color>>,
   TERM            |-> <<S_dumb, S_vt100, S_ansi, S_xterm, S_xterm_256color,
                         S_rxvt_256, S_xterm_kitty, S_xterm_ghostty,
                         S_wezterm, S_st_24bit>>,
   TERM_PROGRAM    |-> <<S_iTerm_app, S_Apple_Terminal, S_Ghostty, S_WezTerm,
                         S_vscode>>,
   KITTY_WINDOW_ID |-> <<S_empty, S_1>>,
   WT_SESSION      |-> <<S_empty, S_1>>]

(* CI indicator settings: none, each variable alone, or CI set to "" *)
CiCands ==
  <<[name |-> "CI", val |-> S_true],
    [name |-> "GITHUB_ACTIONS", val |-> S_true],
    [name |-> "GITLAB_CI", val |-> S_true],
    [name |-> "JENKINS_URL", val |-> S_true],
    [name |-> "BUILDKITE", val |-> S_true],
    [name |-> "CIRCLECI", val |-> S_true],
    [name |-> "TRAVIS", val |-> S_true],
    [name |-> "CI", val |-> S_empty]>>

(* the environment selected by a choice of indices *)
mkEnv(cands, choice, ci) ==
  LET names == {n \in DOMAIN cands : choice[n] # 0}
      ciSet == IF ci = 0 THEN {} ELSE {CiCands[ci].name}
  IN [n \in names \cup ciSet |->
        IF n \in names THEN cands[n][choice[n]] ELSE CiCands[ci].val]

mkStdout(tty, cols, rws) ==
  [isTTY |-> tty, columns |-> cols, rows |-> rws, written |-> <<>>]

InitDetect ==
  /\ \E a \in 0..Len(DetectCands.NO_COLOR),
        b \in 0..Len(DetectCands.FORCE_COLOR),
        c \in 0..Len(DetectCands.COLORTERM),
        d \in 0..Len(DetectCands.TERM),
        f \in 0..Len(DetectCands.TERM_PROGRAM),
        g \in 0..Len(DetectCands.KITTY_WINDOW_ID),
        h \in 0..Len(DetectCands.WT_SESSION),
        ci \in 0..Len(CiCands) :
       env = mkEnv(DetectCands,
                   [NO_COLOR |-> a, FORCE_COLOR |-> b, COLORTERM |-> c,
                    TERM |-> d, TERM_PROGRAM |-> f, KITTY_WINDOW_ID |-> g,
                    WT_SESSION |-> h], ci)
  /\ \E tty \in BOOLEAN :
       stdout = [s \in {"process.stdout"} |-> mkStdout(tty, 80, 24)]
  /\ stdin = [s \in {"process.stdin"} |-> [isTTY |-> FALSE, setRawMode |-> FALSE]]
  /\ terms = <<>>
  /\ chains = <<>>
  /\ last = NoCall
  /\ globals = InitialGlobals
  /\ console = InitialConsole
  /\ patches = <<>>

(* a caller evaluates detectColor(process.stdout) *)
DetectColorCall ==
  /\ last = NoCall
  /\ last' = [op |-> "detectColor",
              value |-> detectColor(stdout["process.stdout"], env)]
  /\ UNCHANGED <<console, patches, globals, env, stdout, stdin, terms, chains>>

NextDetect == DetectColorCall

SpecDetect == InitDetect /\ [][NextDetect]_vars

----------------------------------------------------------------------------
(* Properties of detectColor, checked under SpecDetect.                    *)

called(op) == last.op = op
theStdout == stdout["process.stdout"]

(* C1: whenever NO_COLOR is set (to any value, the empty string included),
   detectColor returns null, whatever isTTY and the other variables are. *)
C1_NoColorWins ==
  (called("detectColor") /\ isSet(env, "NO_COLOR")) => last.value = "null"

C1_Witness ==
  /\ called("detectColor")
  /\ envIs(env, "NO_COLOR", S_empty)
  /\ envIs(env, "FORCE_COLOR", S_3)
  /\ envIs(env, "COLORTERM", S_truecolor)
  /\ theStdout.isTTY
  /\ last.value = "null"

(* C2: with NO_COLOR unset, FORCE_COLOR "0", "1", "2", "3" gives null,
   basic, 256, truecolor, for every isTTY, TERM and other variable. *)
C2_ForceColorLevels ==
  (called("detectColor") /\ ~isSet(env, "NO_COLOR")) =>
     /\ envIs(env, "FORCE_COLOR", S_0) => last.value = "null"
     /\ envIs(env, "FORCE_COLOR", S_1) => last.value = "basic"
     /\ envIs(env, "FORCE_COLOR", S_2) => last.value = "256"
     /\ envIs(env, "FORCE_COLOR", S_3) => last.value = "truecolor"

C2_Witness ==
  /\ called("detectColor")
  /\ ~isSet(env, "NO_COLOR")
  /\ envIs(env, "FORCE_COLOR", S_3)
  /\ ~theStdout.isTTY
  /\ envIs(env, "TERM", S_dumb)
  /\ last.value = "truecolor"

(* The precedence list of C3 as a table: the result is that of the first
   rule whose condition holds.  presentK and presentW say when
   KITTY_WINDOW_ID and WT_SESSION count as present.                        *)
C3_Rules(tty, e, presentK, presentW) ==
  LET term == IF "TERM" \in DOMAIN e THEN e["TERM"] ELSE <<>>
      tp(v) == "TERM_PROGRAM" \in DOMAIN e /\ e["TERM_PROGRAM"] = v
      fc(v) == "FORCE_COLOR" \in DOMAIN e /\ e["FORCE_COLOR"] = v
      ct(v) == "COLORTERM" \in DOMAIN e /\ e["COLORTERM"] = v
      has(sub) == \E i \in 1..Len(term) :
                     /\ i + Len(sub) - 1 <= Len(term)
                     /\ \A k \in 1..Len(sub) : term[i + k - 1] = sub[k]
  IN
  << [n |-> 1,  when |-> "NO_COLOR" \in DOMAIN e, then |-> "null"],
     [n |-> 2,  when |-> fc(S_0) \/ fc(S_false), then |-> "null"],
     [n |-> 2,  when |-> fc(S_1), then |-> "basic"],
     [n |-> 2,  when |-> fc(S_2), then |-> "256"],
     [n |-> 2,  when |-> fc(S_3), then |-> "truecolor"],
     [n |-> 2,  when |-> "FORCE_COLOR" \in DOMAIN e, then |-> "basic"],
     [n |-> 3,  when |-> ~tty, then |-> "null"],
     [n |-> 4,  when |-> "TERM" \in DOMAIN e /\ term = S_dumb, then |-> "null"],
     [n |-> 5,  when |-> ct(S_truecolor) \/ ct(S_24bit), then |-> "truecolor"],
     [n |-> 6,  when |-> has(S_truecolor) \/ has(S_24bit) \/ has(S_xterm_ghostty)
                         \/ has(S_xterm_kitty) \/ has(S_wezterm),
                then |-> "truecolor"],
     [n |-> 7,  when |-> has(S_256), then |-> "256"],
     [n |-> 8,  when |-> tp(S_iTerm_app), then |-> "truecolor"],
     [n |-> 8,  when |-> tp(S_Apple_Terminal), then |-> "256"],
     [n |-> 9,  when |-> tp(S_Ghostty) \/ tp(S_WezTerm), then |-> "truecolor"],
     [n |-> 10, when |-> presentK, then |-> "truecolor"],
     [n |-> 11, when |-> has(S_xterm) \/ has(S_color) \/ has(S_ansi),
                then |-> "basic"],
     [n |-> 12, when |-> \E v \in {"CI", "GITHUB_ACTIONS", "GITLAB_CI",
                                   "JENKINS_URL", "BUILDKITE", "CIRCLECI",
                                   "TRAVIS"} : v \in DOMAIN e,
                then |-> "basic"],
     [n |-> 13, when |-> presentW, then |-> "truecolor"],
     [n |-> 14, when |-> TRUE, then |-> "basic"] >>

C3_FirstMatch(rules) ==
  rules[CHOOSE i \in 1..Len(rules) :
          rules[i].when /\ \A j \in 1..(i - 1) : ~rules[j].when]

(* C3 as stated: detectColor returns the result of the first matching rule
   of the fourteen-rule list, a variable being present when it is set. *)
C3_Original ==
  called("detectColor") =>
    last.value = C3_FirstMatch(C3_Rules(theStdout.isTTY, env,
                                        "KITTY_WINDOW_ID" \in DOMAIN env,
                                        "WT_SESSION" \in DOMAIN env)).then

(* C3 amended: detectColor returns the result of the first matching rule
   of the fourteen-rule list, where NO_COLOR, FORCE_COLOR and the CI
   variables are present when set to any value, while KITTY_WINDOW_ID
   (rule 10) and WT_SESSION (rule 13) are present only when set to a
   non-empty string. *)
C3_FirstMatchingRule ==
  called("detectColor") =>
    last.value = C3_FirstMatch(C3_Rules(theStdout.isTTY, env,
                   "KITTY_WINDOW_ID" \in DOMAIN env /\ env["KITTY_WINDOW_ID"] # <<>>,
                   "WT_SESSION" \in DOMAIN env /\ env["WT_SESSION"] # <<>>)).then

(* a TTY where only rule 12 (through TRAVIS) separates basic from rule 13 *)
C3_Witness ==
  /\ called("detectColor")
  /\ theStdout.isTTY
  /\ DOMAIN env = {"TRAVIS", "WT_SESSION", "KITTY_WINDOW_ID", "TERM"}
  /\ env["KITTY_WINDOW_ID"] = S_empty
  /\ env["WT_SESSION"] = S_1
  /\ env["TERM"] = S_vt100
  /\ last.value = "basic"

C4_TruecolorMarker(e) ==
  \/ envIs(e, "COLORTERM", S_truecolor) \/ envIs(e, "COLORTERM", S_24bit)
  \/ \E m \in {S_truecolor, S_24bit, S_xterm_ghostty, S_xterm_kitty, S_wezterm} :
       includes(envOr(e, "TERM"), m)
  \/ \E p \in {S_iTerm_app, S_Ghostty, S_WezTerm} : envIs(e, "TERM_PROGRAM", p)
  \/ truthy(e, "KITTY_WINDOW_ID")

(* C4: on a TTY with NO_COLOR and FORCE_COLOR unset and TERM not "dumb",
   detectColor returns truecolor whenever the environment carries a
   truecolor marker, also when TERM contains "256color". *)
C4_TruecolorNever256 ==
  ( /\ called("detectColor")
    /\ theStdout.isTTY
    /\ ~isSet(env, "NO_COLOR") /\ ~isSet(env, "FORCE_COLOR")
    /\ ~envIs(env, "TERM", S_dumb)
    /\ C4_TruecolorMarker(env) ) => last.value = "truecolor"

----------------------------------------------------------------------------
(* Styling chains of one Term: property accesses, color calls, rendering.  *)

MaxChains == 3

ExploredStyles == {"bold", "red", "reset", "visible"}

ExploredColorCalls ==
  {[model |-> "bgRgb",     args |-> <<0, 0, 255>>],
   [model |-> "hex",       args |-> <<"#", "0", "f", "0">>],
   [model |-> "ansi256",   args |-> 196]}

Texts ==
  {<<>>,
   <<"h", "i">>,
   <<"a", LF, "b">>,
   sgr(1) \o <<"x">> \o sgr(22)}

InitChain ==
  /\ env = [n \in {} |-> <<>>]
  /\ stdout = [s \in {"process.stdout"} |-> mkStdout(TRUE, 80, 24)]
  /\ stdin = [s \in {"process.stdin"} |-> [isTTY |-> TRUE, setRawMode |-> TRUE]]
  /\ \E c \in {"undefined", "null", "256", "truecolor"} :
       terms = <<createTerm([NoOptions EXCEPT !.color = c], env, stdout, stdin)>>
  /\ chains = <<createChainProxy(rootChalk, 1, <<>>)>>
  /\ last = NoCall
  /\ globals = InitialGlobals
  /\ console = InitialConsole
  /\ patches = <<>>

(* chain.name: get trap with a style name *)
GetStyle(c, name) ==
  /\ Len(chains) < MaxChains
  /\ chains' = getChain(chains, c, styleGetter(chains[c].chalk, name), name)
  /\ last' = [op |-> "get", chain |-> c, prop |-> name]
  /\ UNCHANGED <<console, patches, globals, env, stdout, stdin, terms>>

(* chain.rgb(r, g, b) and the like: get trap, then the returned function *)
CallColor(c, call) ==
  /\ Len(chains) < MaxChains
  /\ chains' = getChain(chains, c,
                        modelCall(chains[c].chalk,
                                  terms[chains[c].termBase].chalkLevel,
                                  call.model, call.args),
                        call.model)
  /\ last' = [op |-> "call", chain |-> c, prop |-> call.model]
  /\ UNCHANGED <<console, patches, globals, env, stdout, stdin, terms>>

(* chain(text): apply trap with one string argument *)
Apply(c, text) ==
  /\ last' = [op |-> "apply", chain |-> c, text |-> text,
              value |-> applyChain(chains, terms, c, text)]
  /\ UNCHANGED <<console, patches, globals, env, stdout, stdin, terms, chains>>

(* chain(): apply trap without argument, currentChalk(String(undefined ?? "")) *)
ApplyNoArg(c) ==
  /\ last' = [op |-> "apply0", chain |-> c, text |-> <<>>,
              value |-> applyChain(chains, terms, c, <<>>)]
  /\ UNCHANGED <<console, patches, globals, env, stdout, stdin, terms, chains>>

NextChain ==
  \/ \E c \in 1..Len(chains), name \in ExploredStyles : GetStyle(c, name)
  \/ \E c \in 1..Len(chains), call \in ExploredColorCalls : CallColor(c, call)
  \/ \E c \in 1..Len(chains), text \in Texts : Apply(c, text)
  \/ \E c \in 1..Len(chains) : ApplyNoArg(c)

SpecChain == InitChain /\ [][NextChain]_vars

----------------------------------------------------------------------------
(* Properties of the styling chain, checked under SpecChain.               *)

applied == last.op \in {"apply", "apply0"}
lastChain == chains[last.chain]
lastTerm == terms[lastChain.termBase]
range(seq) == {seq[i] : i \in 1..Len(seq)}

(* C5 as stated: at color depth none every chain, however built, returns
   the text it is applied to unchanged. *)
C5_Original ==
  (applied /\ hasColor(lastTerm) = "null") => last.value = last.text

(* C5 amended: at color depth none a chain built by any sequence of
   attribute accesses and color calls (rgb, hex, ansi256 and their bg forms)
   returns the text unchanged, unless "visible" is among the accessed
   attributes, in which case it returns the empty string. *)
C5_NoColorPassthrough ==
  (applied /\ hasColor(lastTerm) = "null") =>
     last.value = (IF "visible" \in range(lastChain.path) THEN <<>> ELSE last.text)

C5_Witness ==
  /\ last.op = "apply"
  /\ hasColor(lastTerm) = "null"
  /\ lastChain.path = <<"red", "bgRgb">>
  /\ last.text = <<"h", "i">>
  /\ last.value = <<"h", "i">>

isPrefix(a, s) == Len(a) <= Len(s) /\ SubSeq(s, 1, Len(a)) = a
isSuffix(a, s) == Len(a) <= Len(s) /\ SubSeq(s, Len(s) - Len(a) + 1, Len(s)) = a

(* the longest prefix and suffix of s made of escape sequences only *)
C6_Header(s) ==
  LET ks == {k \in 0..Len(s) : stripAnsi(SubSeq(s, 1, k)) = <<>>}
  IN SubSeq(s, 1, CHOOSE k \in ks : \A j \in ks : j <= k)
C6_Trailer(s) ==
  LET ks == {k \in 1..(Len(s) + 1) : stripAnsi(SubSeq(s, k, Len(s))) = <<>>}
  IN SubSeq(s, CHOOSE k \in ks : \A j \in ks : k <= j, Len(s))

(* enabling codes of the accessed attributes in access order, closing
   codes in reverse access order ("visible" has no code) *)
RECURSIVE C6_Opens(_)
C6_Opens(path) ==
  IF path = <<>> THEN <<>>
  ELSE (IF Head(path) = "visible" THEN <<>> ELSE sgr(ansiStyles[Head(path)][1]))
       \o C6_Opens(Tail(path))
RECURSIVE C6_Closes(_)
C6_Closes(path) ==
  IF path = <<>> THEN <<>>
  ELSE C6_Closes(Tail(path))
       \o (IF Head(path) = "visible" THEN <<>> ELSE sgr(ansiStyles[Head(path)][2]))

(* the codes occur in s in the given order, one after the other *)
RECURSIVE C6_InOrder(_, _)
C6_InOrder(s, path) ==
  IF path = <<>> THEN TRUE
  ELSE IF Head(path) = "visible" THEN C6_InOrder(s, Tail(path))
  ELSE LET code == sgr(ansiStyles[Head(path)][1])
           at   == indexOf(s, code, 1)
       IN at # 0 /\ C6_InOrder(slice(s, at + Len(code)), Tail(path))

(* a chain of attribute accesses applied to a non-empty plain text at a
   color depth other than none *)
C6_Case ==
  /\ last.op = "apply"
  /\ hasColor(lastTerm) # "null"
  /\ lastChain.path # <<>>
  /\ \A i \in 1..Len(lastChain.path) : lastChain.path[i] \in ChalkStyleName
  /\ last.text # <<>>
  /\ ESC \notin range(last.text)

(* C6 as stated: the result strips to the text, has the enabling code of
   every accessed attribute before the text in access order, and ends,
   after the text, with a single full-reset code. *)
C6_Original ==
  C6_Case =>
    /\ stripAnsi(last.value) = last.text
    /\ C6_InOrder(C6_Header(last.value), lastChain.path)
    /\ C6_Trailer(last.value) = sgr(0)

(* C6 amended: for a non-empty text without escape sequences the result
   strips to the text, starts with the enabling code of every accessed
   attribute in access order (none reordered, none dropped), and ends,
   after the text, with the closing code of every accessed attribute in
   reverse access order (ESC[39m ESC[22m for bold.red), not with a single
   full reset; "visible" contributes no code. *)
C6_OpenAndCloseCodes ==
  C6_Case =>
    /\ stripAnsi(last.value) = last.text
    /\ C6_Header(last.value) = C6_Opens(lastChain.path)
    /\ C6_Trailer(last.value) = C6_Closes(lastChain.path)
    /\ (LF \notin range(last.text) =>
          last.value = C6_Opens(lastChain.path) \o last.text
                       \o C6_Closes(lastChain.path))

C6_Witness ==
  /\ C6_Case
  /\ hasColor(lastTerm) = "truecolor"
  /\ lastChain.path = <<"bold", "red">>
  /\ last.text = <<"h", "i">>
  /\ last.value = sgr(1) \o sgr(31) \o <<"h", "i">> \o sgr(39) \o sgr(22)

(* C7: a step never changes a chain that exists: it keeps its builder and
   renders a text as before, and every chain, new ones included, uses
   the chalk level fixed when its Term was created. *)
C7_ChainsImmutable ==
  [][ /\ \A c \in 1..Len(chains) :
           /\ c <= Len(chains')
           /\ chains'[c].chalk = chains[c].chalk
           /\ applyChain(chains', terms', c, <<"h", "i">>)
                = applyChain(chains, terms, c, <<"h", "i">>)
      /\ \A c \in 1..Len(chains') :
           /\ chains'[c].termBase \in 1..Len(terms)
           /\ terms'[chains'[c].termBase].chalkLevel
                = chalkLevel(hasColor(terms[chains'[c].termBase]))
    ]_vars

(* bold was extended to bold.red and then applied: it still renders bold *)
C7_Witness ==
  /\ Len(chains) = 3
  /\ chains[2].path = <<"bold">>
  /\ chains[3].path = <<"bold", "red">>
  /\ hasColor(terms[1]) = "256"
  /\ last.op = "apply" /\ last.chain = 2 /\ last.text = <<"h", "i">>
  /\ last.value = sgr(1) \o <<"h", "i">> \o sgr(22)

----------------------------------------------------------------------------
(* Operations on a Term and on the process state around it.                *)

(* createTerm(options); a specification models the lifetime of one Term *)
CreateTerm(options) ==
  /\ terms = <<>>
  /\ terms' = <<createTerm(options, env, stdout, stdin)>>
  /\ chains' = <<createChainProxy(rootChalk, 1, <<>>)>>
  /\ last' = [op |-> "createTerm"]
  /\ UNCHANGED <<console, patches, globals, env, stdout, stdin>>

(* term.hasCursor(), term.hasInput(), term.hasColor(), term.hasUnicode() *)
Query(t, method) ==
  /\ last' = [op |-> method, term |-> t,
              value |-> CASE method = "hasCursor"  -> hasCursor(terms[t])
                          [] method = "hasInput"   -> hasInput(terms[t])
                          [] method = "hasColor"   -> hasColor(terms[t])
                          [] method = "hasUnicode" -> hasUnicode(terms[t])]
  /\ UNCHANGED <<console, patches, globals, env, stdout, stdin, terms, chains>>

(* reading chain[prop] *)
ReadProp(c, prop) ==
  /\ last' = [op |-> "get", chain |-> c, prop |-> prop,
              value |-> proxyGet(chains, terms, c, prop)]
  /\ UNCHANGED <<console, patches, globals, env, stdout, stdin, terms, chains>>

(* process.env[name] = v, delete process.env[name] *)
SetEnv(name, v) ==
  /\ env' = setEnv(env, name, v)
  /\ env' # env
  /\ last' = NoCall
  /\ UNCHANGED <<console, patches, globals, stdout, stdin, terms, chains>>

DeleteEnv(name) ==
  /\ name \in DOMAIN env
  /\ env' = deleteEnv(env, name)
  /\ last' = NoCall
  /\ UNCHANGED <<console, patches, globals, stdout, stdin, terms, chains>>

(* the output stream stops or starts being a TTY *)
SetTTY(s, b) ==
  /\ stdout[s].isTTY # b
  /\ stdout' = [stdout EXCEPT ![s].isTTY = b]
  /\ last' = NoCall
  /\ UNCHANGED <<console, patches, globals, env, stdin, terms, chains>>

(* the input stream changes: not a TTY, or a TTY with or without raw mode *)
SetInput(s, tty, raw) ==
  /\ stdin[s] # [isTTY |-> tty, setRawMode |-> raw]
  /\ stdin' = [stdin EXCEPT ![s] = [isTTY |-> tty, setRawMode |-> raw]]
  /\ last' = NoCall
  /\ UNCHANGED <<console, patches, globals, env, stdout, terms, chains>>

(* the terminal is resized *)
Resize(s, cols, rws) ==
  /\ <<stdout[s].columns, stdout[s].rows>> # <<cols, rws>>
  /\ stdout' = [stdout EXCEPT ![s].columns = cols, ![s].rows = rws]
  /\ last' = NoCall
  /\ UNCHANGED <<console, patches, globals, env, stdin, terms, chains>>

MaxWrites == 1

(* term.write(str) and term.writeLine(str) *)
Write(t, str) ==
  /\ Len(stdout[terms[t].stdout].written) < MaxWrites
  /\ stdout' = [stdout EXCEPT ![terms[t].stdout].written = Append(@, str)]
  /\ last' = [op |-> "write"]
  /\ UNCHANGED <<console, patches, globals, env, stdin, terms, chains>>

WriteLine(t, str) ==
  /\ Len(stdout[terms[t].stdout].written) < MaxWrites
  /\ stdout' = [stdout EXCEPT ![terms[t].stdout].written = Append(@, str \o <<LF>>)]
  /\ last' = [op |-> "writeLine"]
  /\ UNCHANGED <<console, patches, globals, env, stdin, terms, chains>>

(* variant of the disposal hook that can be invoked only once *)
Dispose_once(t) ==
  /\ ~terms[t].disposed
  /\ terms' = [terms EXCEPT ![t].disposed = TRUE]
  /\ last' = [op |-> "dispose"]
  /\ UNCHANGED <<console, patches, globals, env, stdout, stdin, chains>>

(* term[Symbol.dispose]() *)
Dispose(t) ==
  /\ terms' = [terms EXCEPT ![t].disposed = TRUE]
  /\ last' = [op |-> "dispose"]
  /\ UNCHANGED <<console, patches, globals, env, stdout, stdin, chains>>

AllOptions(outIds, inIds) ==
  [stdout : {"undefined"} \cup outIds, stdin : {"undefined"} \cup inIds,
   cursor : {"undefined", "true", "false"},
   color : {"undefined", "null", "basic", "256", "truecolor"},
   unicode : {"undefined", "true", "false"}]

QueryMethods == {"hasCursor", "hasInput", "hasColor", "hasUnicode"}

InputKinds ==
  {[isTTY |-> FALSE, setRawMode |-> FALSE],
   [isTTY |-> TRUE, setRawMode |-> FALSE],
   [isTTY |-> TRUE, setRawMode |-> TRUE]}

----------------------------------------------------------------------------
(* createTerm with every combination of options, in many environments.     *)

CreateCands ==
  [NO_COLOR    |-> <<S_1>>,
   FORCE_COLOR |-> <<S_2>>,
   TERM        |-> <<S_dumb, S_xterm_256color>>,
   LANG        |-> <<S_en_US_UTF_8, S_C>>]

InitCreate ==
  /\ \E a \in 0..Len(CreateCands.NO_COLOR),
        b \in 0..Len(CreateCands.FORCE_COLOR),
        d \in 0..Len(CreateCands.TERM),
        l \in 0..Len(CreateCands.LANG) :
       env = mkEnv(CreateCands,
                   [NO_COLOR |-> a, FORCE_COLOR |-> b, TERM |-> d, LANG |-> l], 0)
  /\ \E t1 \in BOOLEAN, t2 \in BOOLEAN :
       stdout = [s \in {"process.stdout", "custom.stdout"} |->
                   mkStdout(IF s = "process.stdout" THEN t1 ELSE t2, 80, 24)]
  /\ \E k1 \in InputKinds, k2 \in InputKinds :
       stdin = [s \in {"process.stdin", "custom.stdin"} |->
                  IF s = "process.stdin" THEN k1 ELSE k2]
  /\ terms = <<>>
  /\ chains = <<>>
  /\ last = NoCall
  /\ globals = InitialGlobals
  /\ console = InitialConsole
  /\ patches = <<>>

NextCreate ==
  \/ \E o \in AllOptions({"custom.stdout"}, {"custom.stdin"}) : CreateTerm(o)
  \/ \E t \in 1..Len(terms), m \in QueryMethods : Query(t, m)

SpecCreate == InitCreate /\ [][NextCreate]_vars

----------------------------------------------------------------------------
(* Properties of createTerm, checked under SpecCreate (the environment and
   the streams are those createTerm saw).                                  *)

C8_Out(o) == IF o.stdout = "undefined" THEN "process.stdout" ELSE o.stdout
C8_In(o) == IF o.stdin = "undefined" THEN "process.stdin" ELSE o.stdin

(* C8: a forced capability is returned as forced (color null, basic, 256,
   truecolor; cursor and unicode true or false); a capability that is not
   forced is what its detection function gives on the streams in use. *)
C8_ForcedBypassesDetection ==
  (last.op \in QueryMethods) =>
    LET o == terms[last.term].options IN
    /\ last.op = "hasColor" =>
         last.value = (IF o.color # "undefined" THEN o.color
                       ELSE detectColor(stdout[C8_Out(o)], env))
    /\ last.op = "hasCursor" =>
         last.value = (IF o.cursor # "undefined" THEN o.cursor = "true"
                       ELSE detectCursor(stdout[C8_Out(o)], env))
    /\ last.op = "hasUnicode" =>
         last.value = (IF o.unicode # "undefined" THEN o.unicode = "true"
                       ELSE detectUnicode(env))
    /\ last.op = "hasInput" => last.value = detectInput(stdin[C8_In(o)])

(* color forced to null where detection on the custom stream says 256 *)
C8_Witness ==
  /\ last.op = "hasColor"
  /\ terms[last.term].options.color = "null"
  /\ terms[last.term].options.stdout = "custom.stdout"
  /\ detectColor(stdout["custom.stdout"], env) = "256"
  /\ detectColor(stdout["process.stdout"], env) = "null"
  /\ last.value = "null"

----------------------------------------------------------------------------
(* The lifetime of one Term while the process state changes around it.     *)

TermCands ==
  [TERM |-> <<S_xterm_256color>>,
   LANG |-> <<S_en_US_UTF_8>>]

TermOptions ==
  {o \in AllOptions({}, {}) :
     /\ o.cursor = "undefined"
     /\ o.color \in {"undefined", "truecolor"}
     /\ o.unicode = "undefined"}

TermInputKinds ==
  {[isTTY |-> FALSE, setRawMode |-> FALSE], [isTTY |-> TRUE, setRawMode |-> TRUE]}

Sizes == {<<80, 24>>, <<120, 40>>}

InitTerm ==
  /\ \E d \in 0..Len(TermCands.TERM),
        l \in 0..Len(TermCands.LANG) :
       env = mkEnv(TermCands, [TERM |-> d, LANG |-> l], 0)
  /\ \E tty \in BOOLEAN :
       stdout = [s \in {"process.stdout"} |-> mkStdout(tty, 80, 24)]
  /\ \E k \in TermInputKinds : stdin = [s \in {"process.stdin"} |-> k]
  /\ terms = <<>>
  /\ chains = <<>>
  /\ last = NoCall
  /\ globals = InitialGlobals
  /\ console = InitialConsole
  /\ patches = <<>>

NextTerm ==
  \/ \E o \in TermOptions : CreateTerm(o)
  \/ \E t \in 1..Len(terms), m \in QueryMethods : Query(t, m)
  \/ \E c \in 1..Len(chains), prop \in {"cols", "rows"} : ReadProp(c, prop)
  \/ \E name \in DOMAIN TermCands :
        \E i \in DOMAIN TermCands[name] : SetEnv(name, TermCands[name][i])
  \/ \E name \in DOMAIN TermCands : DeleteEnv(name)
  \/ \E s \in DOMAIN stdout, b \in BOOLEAN : SetTTY(s, b)
  \/ \E s \in DOMAIN stdin, k \in TermInputKinds : SetInput(s, k.isTTY, k.setRawMode)
  \/ \E s \in DOMAIN stdout, sz \in Sizes : Resize(s, sz[1], sz[2])
  \/ \E t \in 1..Len(terms) : Write(t, <<"h", "i">>)
  \/ \E t \in 1..Len(terms) : WriteLine(t, <<"h", "i">>)
  \/ \E t \in 1..Len(terms) : Dispose(t)
  \/ \E c \in {Len(chains)} \ {0} : GetStyle(c, "red")
  \/ \E c \in 1..Len(chains) : Apply(c, <<"h", "i">>)

SpecTerm == InitTerm /\ [][NextTerm]_vars

----------------------------------------------------------------------------
(* Properties of a Term over its lifetime, checked under SpecTerm.         *)

(* C9: no step (environment change, isTTY change, resize, styling, write,
   writeLine, dispose) changes what hasCursor, hasInput, hasColor and
   hasUnicode return for an existing Term, nor the chalk level its chains
   render with. *)
C9_SnapshotNeverChanges ==
  [][ \A t \in 1..Len(terms) :
        /\ t <= Len(terms')
        /\ hasCursor(terms[t])' = hasCursor(terms[t])
        /\ hasInput(terms[t])' = hasInput(terms[t])
        /\ hasColor(terms[t])' = hasColor(terms[t])
        /\ hasUnicode(terms[t])' = hasUnicode(terms[t])
        /\ terms'[t].chalkLevel = terms[t].chalkLevel
        /\ \A c \in 1..Len(chains) :
             applyChain(chains', terms', c, <<"h", "i">>)
               = applyChain(chains, terms, c, <<"h", "i">>)
    ]_vars

(* a disposed Term, written to, whose environment now detects differently,
   still answers hasColor() with the value cached at construction *)
C9_Witness ==
  /\ last.op = "hasColor"
  /\ terms[last.term].options.color = "undefined"
  /\ terms[last.term].disposed
  /\ stdout[terms[last.term].stdout].written # <<>>
  /\ last.value = "256"
  /\ detectColor(stdout[terms[last.term].stdout], env) = "null"
  /\ detectCursor(stdout[terms[last.term].stdout], env) # hasCursor(terms[last.term])
  /\ detectUnicode(env) # hasUnicode(terms[last.term])
  /\ detectInput(stdin[terms[last.term].stdin]) # hasInput(terms[last.term])

(* C10: every read of term.cols (term.rows) returns the output stream's
   columns (rows) at the moment of the read when the stream is a TTY, and
   undefined when it is not. *)
C10_LiveDimensions ==
  (last.op = "get" /\ last.chain = 1) =>
    /\ last.prop = "cols" => last.value = colsGetter(lastTerm, stdout)
    /\ last.prop = "rows" => last.value = rowsGetter(lastTerm, stdout)

----------------------------------------------------------------------------
(* detection.ts: extended underline detection and the legacy cache.        *)

EXTENDED_UNDERLINE_TERMS ==
  {S_xterm_ghostty, S_xterm_kitty, S_wezterm, S_xterm_256color}

EXTENDED_UNDERLINE_PROGRAMS == {S_Ghostty, S_iTerm_app, S_WezTerm}

detectExtendedUnderline(e) ==
  LET term        == envOr(e, "TERM")
      termProgram == envOr(e, "TERM_PROGRAM")
  IN
  IF \E t \in EXTENDED_UNDERLINE_TERMS : includes(term, t) THEN TRUE
  ELSE IF \E p \in EXTENDED_UNDERLINE_PROGRAMS : includes(termProgram, p)
    THEN (IF termProgram = S_Apple_Terminal THEN FALSE ELSE TRUE)
  ELSE IF truthy(e, "KITTY_WINDOW_ID") THEN TRUE
  ELSE FALSE

----------------------------------------------------------------------------
(* Calls of detectUnicode and detectExtendedUnderline in an environment.   *)

S_en_US_utf8 == <<"e", "n", "_", "U", "S", ".", "u", "t", "f", "8">>

LocaleCands ==
  [LANG            |-> <<S_C, S_en_US_UTF_8, S_empty>>,
   LC_ALL          |-> <<S_C, S_en_US_utf8>>,
   LC_CTYPE        |-> <<S_C, S_en_US_UTF_8>>,
   TERM            |-> <<S_dumb, S_vt100, S_ansi, S_xterm, S_xterm_256color,
                         S_xterm_ghostty, S_tmux>>,
   TERM_PROGRAM    |-> <<S_Apple_Terminal, S_iTerm_app, S_vscode>>,
   KITTY_WINDOW_ID |-> <<S_empty, S_1>>,
   WT_SESSION      |-> <<S_empty, S_1>>,
   CI              |-> <<S_empty, S_true>>,
   GITHUB_ACTIONS  |-> <<S_true>>]

InitLocale ==
  /\ \E choice \in [DOMAIN LocaleCands -> 0..3] :
       /\ \A n \in DOMAIN LocaleCands : choice[n] <= Len(LocaleCands[n])
       /\ choice["TERM"] = 0
       /\ env = mkEnv(LocaleCands, choice, 0)
  /\ stdout = [s \in {"process.stdout"} |-> mkStdout(TRUE, 80, 24)]
  /\ stdin = [s \in {"process.stdin"} |-> [isTTY |-> FALSE, setRawMode |-> FALSE]]
  /\ terms = <<>>
  /\ chains = <<>>
  /\ last = NoCall
  /\ globals = InitialGlobals
  /\ console = InitialConsole
  /\ patches = <<>>

(* process.env.TERM is set before the call *)
SetTerm(i) ==
  /\ last = NoCall
  /\ ~isSet(env, "TERM")
  /\ env' = setEnv(env, "TERM", LocaleCands.TERM[i])
  /\ UNCHANGED <<console, patches, globals, stdout, stdin, terms, chains, last>>

DetectUnicodeCall ==
  /\ last = NoCall
  /\ last' = [op |-> "detectUnicode", value |-> detectUnicode(env)]
  /\ UNCHANGED <<console, patches, globals, env, stdout, stdin, terms, chains>>

DetectExtendedUnderlineCall ==
  /\ last = NoCall
  /\ last' = [op |-> "detectExtendedUnderline",
              value |-> detectExtendedUnderline(env)]
  /\ UNCHANGED <<console, patches, globals, env, stdout, stdin, terms, chains>>

NextLocale ==
  \/ \E i \in DOMAIN LocaleCands.TERM : SetTerm(i)
  \/ DetectUnicodeCall
  \/ DetectExtendedUnderlineCall

SpecLocale == InitLocale /\ [][NextLocale]_vars

----------------------------------------------------------------------------
(* Properties of detectExtendedUnderline and detectUnicode (SpecLocale).   *)

(* C11: with TERM_PROGRAM "Apple_Terminal" and KITTY_WINDOW_ID unset,
   detectExtendedUnderline returns false for every TERM that contains none
   of "xterm-ghostty", "xterm-kitty", "wezterm". *)
C11_AppleTerminalUnsupported ==
  ( /\ called("detectExtendedUnderline")
    /\ envIs(env, "TERM_PROGRAM", S_Apple_Terminal)
    /\ ~isSet(env, "KITTY_WINDOW_ID")
    /\ \A t \in {S_xterm_ghostty, S_xterm_kitty, S_wezterm} :
         ~includes(envOr(env, "TERM"), t) )
  => last.value = FALSE

C12_Marker(s) == includes(toLowerCase(s), S_utf_8) \/ includes(toLowerCase(s), S_utf8)

C12_LocaleHasMarker(e) ==
  \E n \in {"LANG", "LC_ALL", "LC_CTYPE"} : isSet(e, n) /\ C12_Marker(e[n])

(* C12: detectUnicode returns true whenever LANG, LC_ALL or LC_CTYPE
   contains "utf-8" or "utf8" (case-insensitive), whatever the other
   variables are. *)
C12_AnyLocaleMarker ==
  (called("detectUnicode") /\ C12_LocaleHasMarker(env)) => last.value = TRUE

C13_Listed(e) ==
  \/ C12_LocaleHasMarker(e)
  \/ \E p \in {S_iTerm_app, S_Ghostty, S_WezTerm, S_Apple_Terminal} :
       envIs(e, "TERM_PROGRAM", p)
  \/ isSet(e, "KITTY_WINDOW_ID")
  \/ isSet(e, "WT_SESSION")
  \/ \E t \in {S_xterm, S_rxvt, S_screen, S_tmux} : includes(envOr(e, "TERM"), t)

(* C13 as stated: detectUnicode returns true only in an environment with a
   locale marker, a listed TERM_PROGRAM, KITTY_WINDOW_ID, WT_SESSION or a
   listed TERM substring. *)
C13_Original ==
  (called("detectUnicode") /\ last.value = TRUE) => C13_Listed(env)

(* C13 amended: detectUnicode returns true only in an environment of the
   list above or one where CI and GITHUB_ACTIONS are both set to a
   non-empty value; in every other environment it returns false. *)
C13_TrueOnlyIfListed ==
  (called("detectUnicode") /\ last.value = TRUE) =>
     (C13_Listed(env) \/ (truthy(env, "CI") /\ truthy(env, "GITHUB_ACTIONS")))

(* GitHub Actions with a non-UTF-8 locale and an unlisted terminal *)
C13_Witness ==
  /\ called("detectUnicode")
  /\ envIs(env, "LANG", S_C)
  /\ envIs(env, "TERM", S_vt100)
  /\ envIs(env, "TERM_PROGRAM", S_vscode)
  /\ envIs(env, "CI", S_true)
  /\ envIs(env, "GITHUB_ACTIONS", S_true)
  /\ ~C13_Listed(env)
  /\ last.value = TRUE

----------------------------------------------------------------------------
(* Calls of stripAnsi on texts assembled from fragments of escape          *)
(* sequences (utils.ts and term.ts share ANSI_REGEX and stripAnsi).        *)

MaxPieces == 4

StripPieces ==
  {<<ESC>>, <<"[">>, <<"m">>, <<"1">>, <<";">>, <<":">>, <<"x">>,
   <<BACKSLASH>>, <<LF>>, <<ESC, "[">>, <<ESC, "[", "1", "m">>,
   <<ESC, "]", "8", ";", ";">>, <<"]", "8", ";", ";">>, <<ESC, BACKSLASH>>}

RECURSIVE StripTexts(_)
StripTexts(n) ==
  IF n = 0 THEN {<<>>}
  ELSE LET prev == StripTexts(n - 1)
       IN prev \cup {t \o q : t \in prev, q \in StripPieces}

InitStrip ==
  /\ env = [n \in {} |-> <<>>]
  /\ stdout = [s \in {"process.stdout"} |-> mkStdout(TRUE, 80, 24)]
  /\ stdin = [s \in {"process.stdin"} |-> [isTTY |-> FALSE, setRawMode |-> FALSE]]
  /\ terms = <<>>
  /\ chains = <<>>
  /\ last = NoCall
  /\ globals = InitialGlobals
  /\ console = InitialConsole
  /\ patches = <<>>

StripAnsiCall(text) ==
  /\ last = NoCall
  /\ last' = [op |-> "stripAnsi", text |-> text, value |-> stripAnsi(text)]
  /\ UNCHANGED <<console, patches, globals, env, stdout, stdin, terms, chains>>

NextStrip ==
  /\ last = NoCall
  /\ \E text \in StripTexts(MaxPieces) : StripAnsiCall(text)

SpecStrip == InitStrip /\ [][NextStrip]_vars

----------------------------------------------------------------------------
(* Properties of stripAnsi, checked under SpecStrip.                       *)

(* s is ESC [ <digits, ';', ':'>* m *)
C14_IsSgr(s) ==
  /\ Len(s) >= 3
  /\ s[1] = ESC /\ s[2] = "[" /\ s[Len(s)] = "m"
  /\ \A k \in 3..(Len(s) - 1) : s[k] \in SgrParamChars

(* s is ESC ] 8 ; ; <non-ESC>* ESC \ *)
C14_IsOsc(s) ==
  /\ Len(s) >= 7
  /\ SubSeq(s, 1, 5) = <<ESC, "]", "8", ";", ";">>
  /\ s[Len(s) - 1] = ESC /\ s[Len(s)] = BACKSLASH
  /\ \A k \in 6..(Len(s) - 2) : s[k] # ESC

C14_IsSequence(s) == C14_IsSgr(s) \/ C14_IsOsc(s)

C14_ContainsSequence(text) ==
  \E i \in 1..Len(text), j \in 1..Len(text) :
     i <= j /\ C14_IsSequence(SubSeq(text, i, j))

(* C14: for every text that contains no escape sequence of either form,
   stripAnsi(text) = text. *)
C14_NoSequenceUnchanged ==
  (called("stripAnsi") /\ ~C14_ContainsSequence(last.text)) =>
     last.value = last.text

(* a text with an escape introducer and parameters, but no final "m" *)
C14_Witness ==
  /\ called("stripAnsi")
  /\ last.text = <<ESC, "[", "1", ";">>
  /\ last.value = <<ESC, "[", "1", ";">>

(* C15: stripAnsi(stripAnsi(x)) = stripAnsi(x) for every string x. *)
C15_Idempotent ==
  called("stripAnsi") => stripAnsi(last.value) = last.value

(* a complete sequence starts at position i of text *)
C16_StartsAt(text, i) ==
  \E j \in i..Len(text) : C14_IsSequence(SubSeq(text, i, j))

(* position i lies inside a complete sequence that starts before i *)
C16_InsideEarlier(text, i) ==
  \E k \in 1..(i - 1), j \in i..Len(text) : C14_IsSequence(SubSeq(text, k, j))

(* the next position after i at which a complete sequence starts *)
C16_NextStart(text, i) ==
  LET starts == {j \in (i + 1)..Len(text) : C16_StartsAt(text, j)}
  IN IF starts = {} THEN Len(text) + 1
     ELSE CHOOSE j \in starts : \A k \in starts : j <= k

C16_Malformed(text, i) ==
  /\ text[i] = ESC
  /\ ~C16_StartsAt(text, i)
  /\ ~C16_InsideEarlier(text, i)

(* C16: an ESC that starts no complete sequence (and is not the ESC of the
   terminator of a complete hyperlink sequence) is kept, with every
   character that follows it up to the next complete sequence, at the same
   relative position: after what stripAnsi leaves of the text before it and
   before what stripAnsi leaves of the text from that next sequence on. *)
C16_MalformedKept ==
  called("stripAnsi") =>
    \A i \in 1..Len(last.text) :
       C16_Malformed(last.text, i) =>
          LET j == C16_NextStart(last.text, i)
          IN last.value = stripAnsi(SubSeq(last.text, 1, i - 1))
                            \o SubSeq(last.text, i, j - 1)
                            \o stripAnsi(SubSeq(last.text, j, Len(last.text)))

(* ESC x followed by a complete sequence: ESC x is kept, the sequence goes *)
C16_Witness ==
  /\ called("stripAnsi")
  /\ last.text = <<ESC, "x", ESC, "[", "1", "m">>
  /\ C16_Malformed(last.text, 1)
  /\ last.value = <<ESC, "x">>

----------------------------------------------------------------------------
(* constants.ts: escape codes of the extended underline functions.         *)

(* variant of UNDERLINE_CODES whose reset code lacks the final "m" *)
UNDERLINE_CODES_openReset ==
  [none   |-> <<ESC, "[", "4", ":", "0", "m">>,
   single |-> <<ESC, "[", "4", ":", "1", "m">>,
   double |-> <<ESC, "[", "4", ":", "2", "m">>,
   curly  |-> <<ESC, "[", "4", ":", "3", "m">>,
   dotted |-> <<ESC, "[", "4", ":", "4", "m">>,
   dashed |-> <<ESC, "[", "4", ":", "5", "m">>,
   reset  |-> <<ESC, "[", "4", ":", "0">>]

UNDERLINE_CODES ==
  [none   |-> <<ESC, "[", "4", ":", "0", "m">>,
   single |-> <<ESC, "[", "4", ":", "1", "m">>,
   double |-> <<ESC, "[", "4", ":", "2", "m">>,
   curly  |-> <<ESC, "[", "4", ":", "3", "m">>,
   dotted |-> <<ESC, "[", "4", ":", "4", "m">>,
   dashed |-> <<ESC, "[", "4", ":", "5", "m">>,
   reset  |-> <<ESC, "[", "4", ":", "0", "m">>]

UNDERLINE_STANDARD == <<ESC, "[", "4", "m">>

UNDERLINE_RESET_STANDARD == <<ESC, "[", "2", "4", "m">>

UNDERLINE_COLOR_RESET == <<ESC, "[", "5", "9", "m">>

(* variant of buildUnderlineColorCode with a single colon after the 2 *)
buildUnderlineColorCode_oneColon(r, g, b) ==
  <<ESC, "[", "5", "8", ":", "2", ":">> \o toString(r) \o <<":">>
     \o toString(g) \o <<":">> \o toString(b) \o <<"m">>

buildUnderlineColorCode(r, g, b) ==
  <<ESC, "[", "5", "8", ":", "2", ":", ":">> \o toString(r) \o <<":">>
     \o toString(g) \o <<":">> \o toString(b) \o <<"m">>

----------------------------------------------------------------------------
(* detection.ts: the deprecated module-wide cache; underline.ts.           *)

(* what supportsExtendedUnderline() returns with module state g *)
supportsExtendedUnderline(g, e) ==
  IF g.supportsExtendedUnderline = "null" THEN detectExtendedUnderline(e)
  ELSE g.supportsExtendedUnderline = "true"

cacheAfterSupports_noStore(g, e) == g

(* module state after supportsExtendedUnderline() returned *)
cacheAfterSupports(g, e) ==
  IF g.supportsExtendedUnderline = "null"
    THEN [g EXCEPT !.supportsExtendedUnderline =
            IF detectExtendedUnderline(e) THEN "true" ELSE "false"]
    ELSE g

setExtendedUnderlineSupport_onlyIfUnset(g, supported) ==
  IF g.supportsExtendedUnderline = "null"
    THEN [g EXCEPT !.supportsExtendedUnderline = supported]
    ELSE g

setExtendedUnderlineSupport(g, supported) ==
  [g EXCEPT !.supportsExtendedUnderline = supported]

resetDetectionCache_keep(g) == g

resetDetectionCache(g) == [g EXCEPT !.supportsExtendedUnderline = "null"]

(* chalk.underline(text) of the default chalk instance *)
chalkUnderline(g, text) ==
  applyStyle(styleGetter(rootChalk, "underline"), g.chalkLevel, text)

(* variant of underline that never consults supportsExtendedUnderline *)
underline_alwaysExtended(g, e, text, style) ==
  IF style = "single"
    THEN chalkUnderline(g, text)
    ELSE UNDERLINE_CODES[style] \o text \o UNDERLINE_CODES.reset

underline(g, e, text, style) ==
  IF ~supportsExtendedUnderline(g, e) \/ style = "single"
    THEN chalkUnderline(g, text)
    ELSE UNDERLINE_CODES[style] \o text \o UNDERLINE_CODES.reset

curlyUnderline(g, e, text) == underline(g, e, text, "curly")

dottedUnderline(g, e, text) == underline(g, e, text, "dotted")

dashedUnderline(g, e, text) == underline(g, e, text, "dashed")

doubleUnderline(g, e, text) == underline(g, e, text, "double")

underlineColor(g, e, r, gr, b, text) ==
  IF ~supportsExtendedUnderline(g, e)
    THEN chalkUnderline(g, text)
    ELSE UNDERLINE_STANDARD \o buildUnderlineColorCode(r, gr, b) \o text
           \o UNDERLINE_COLOR_RESET \o UNDERLINE_RESET_STANDARD

styledUnderline(g, e, style, rgb, text) ==
  IF ~supportsExtendedUnderline(g, e)
    THEN chalkUnderline(g, text)
    ELSE UNDERLINE_CODES[style] \o buildUnderlineColorCode(rgb[1], rgb[2], rgb[3])
           \o text \o UNDERLINE_CODES.reset \o UNDERLINE_COLOR_RESET

----------------------------------------------------------------------------
(* Calls of the underline functions while the environment changes.         *)

UnderlineStyles == {"single", "double", "curly", "dotted", "dashed"}

(* plain texts, texts with a line break or with chalk's own close code,
   texts holding a complete SGR sequence, an extended underline code or a
   hyperlink sequence that spans a line break, texts with an introducer
   that is never completed, and a text with the characters "58:" *)
UnderlineTexts ==
  {<<>>,
   <<"h", "i">>,
   <<"a", LF, "b">>,
   <<ESC, "x">>,
   <<ESC, "[", "1">>,
   <<ESC, "]", "8", ";", ";", "a", LF, "b">>,
   <<"1", "2", ":", "5", "8", ":", "0", "3">>,
   <<ESC, "[", "1", "m", "x">>,
   <<ESC, "[", "4", ":", "3", "m", "x">>,
   <<ESC, "]", "8", ";", ";", "a", LF, "b", ESC, BACKSLASH, "c">>,
   <<"a">> \o UNDERLINE_RESET_STANDARD \o <<"b">>}

UnderlineRgbs == {<<255, 0, 128>>, <<0, 0, 0>>}

UnderlineCands ==
  [TERM            |-> <<S_xterm_ghostty, S_dumb>>,
   TERM_PROGRAM    |-> <<S_iTerm_app>>,
   KITTY_WINDOW_ID |-> <<S_1>>]

InitUnderline ==
  /\ \E choice \in [DOMAIN UnderlineCands -> 0..2] :
       /\ \A n \in DOMAIN UnderlineCands : choice[n] <= Len(UnderlineCands[n])
       /\ env = mkEnv(UnderlineCands, choice, 0)
  /\ stdout = [s \in {"process.stdout"} |-> mkStdout(TRUE, 80, 24)]
  /\ stdin = [s \in {"process.stdin"} |-> [isTTY |-> FALSE, setRawMode |-> FALSE]]
  /\ terms = <<>>
  /\ chains = <<>>
  /\ last = NoCall
  /\ \E level \in 0..3 : globals = [InitialGlobals EXCEPT !.chalkLevel = level]
  /\ console = InitialConsole
  /\ patches = <<>>

(* the effect every underline function has besides its result: its call of
   supportsExtendedUnderline() fills the cache *)
UnderlineEffect(call) ==
  /\ last' = call
  /\ globals' = cacheAfterSupports(globals, env)
  /\ UNCHANGED <<console, patches, env, stdout, stdin, terms, chains>>

Underline(text, style) ==
  UnderlineEffect([op |-> "underline", style |-> style, text |-> text,
                   value |-> underline(globals, env, text, style)])

CurlyUnderline(text) ==
  UnderlineEffect([op |-> "curlyUnderline", style |-> "curly", text |-> text,
                   value |-> curlyUnderline(globals, env, text)])

DottedUnderline(text) ==
  UnderlineEffect([op |-> "dottedUnderline", style |-> "dotted", text |-> text,
                   value |-> dottedUnderline(globals, env, text)])

DashedUnderline(text) ==
  UnderlineEffect([op |-> "dashedUnderline", style |-> "dashed", text |-> text,
                   value |-> dashedUnderline(globals, env, text)])

DoubleUnderline(text) ==
  UnderlineEffect([op |-> "doubleUnderline", style |-> "double", text |-> text,
                   value |-> doubleUnderline(globals, env, text)])

UnderlineColor(rgb, text) ==
  UnderlineEffect([op |-> "underlineColor", rgb |-> rgb, text |-> text,
                   value |-> underlineColor(globals, env, rgb[1], rgb[2],
                                            rgb[3], text)])

StyledUnderline(style, rgb, text) ==
  UnderlineEffect([op |-> "styledUnderline", style |-> style, rgb |-> rgb,
                   text |-> text,
                   value |-> styledUnderline(globals, env, style, rgb, text)])

SupportsExtendedUnderlineCall ==
  UnderlineEffect([op |-> "supportsExtendedUnderline",
                   value |-> supportsExtendedUnderline(globals, env)])

SetExtendedUnderlineSupport(supported) ==
  /\ globals' = setExtendedUnderlineSupport(globals, supported)
  /\ last' = [op |-> "setExtendedUnderlineSupport", supported |-> supported]
  /\ UNCHANGED <<console, patches, env, stdout, stdin, terms, chains>>

ResetDetectionCache ==
  /\ globals' = resetDetectionCache(globals)
  /\ last' = [op |-> "resetDetectionCache"]
  /\ UNCHANGED <<console, patches, env, stdout, stdin, terms, chains>>

(* calls of the underline functions and changes of the environment only *)
NextFollow ==
  \/ \E text \in UnderlineTexts, style \in UnderlineStyles : Underline(text, style)
  \/ \E text \in UnderlineTexts : CurlyUnderline(text)
  \/ \E text \in UnderlineTexts : DottedUnderline(text)
  \/ \E text \in UnderlineTexts : DashedUnderline(text)
  \/ \E text \in UnderlineTexts : DoubleUnderline(text)
  \/ \E text \in UnderlineTexts, rgb \in UnderlineRgbs : UnderlineColor(rgb, text)
  \/ \E text \in UnderlineTexts, rgb \in UnderlineRgbs,
        style \in UnderlineStyles : StyledUnderline(style, rgb, text)
  \/ \E name \in DOMAIN UnderlineCands :
        \E i \in DOMAIN UnderlineCands[name] :
           SetEnv(name, UnderlineCands[name][i])
  \/ \E name \in DOMAIN UnderlineCands : DeleteEnv(name)

SpecFollow == InitUnderline /\ [][NextFollow]_vars

(* the same, with the cache read, overridden and reset as well *)
NextUnderline ==
  \/ NextFollow
  \/ SupportsExtendedUnderlineCall
  \/ \E supported \in {"true", "false", "null"} :
        SetExtendedUnderlineSupport(supported)
  \/ ResetDetectionCache

SpecUnderline == InitUnderline /\ [][NextUnderline]_vars

----------------------------------------------------------------------------
(* Properties of the underline functions (SpecUnderline, SpecFollow).      *)

NamedUnderlines ==
  {"curlyUnderline", "dottedUnderline", "dashedUnderline", "doubleUnderline"}

(* what supportsExtendedUnderline() answered inside the last call: the
   call left its answer in the cache *)
lastSupported == globals.supportsExtendedUnderline = "true"

(* C17 as stated: stripAnsi(curlyUnderline(text)) = text for all text, with
   and without extended underline support; the same for dottedUnderline,
   dashedUnderline and doubleUnderline. *)
C17_Original ==
  (last.op \in NamedUnderlines) => stripAnsi(last.value) = last.text

(* C17 amended: for every text that contains no escape sequence that
   stripAnsi recognizes, stripAnsi of the result of curlyUnderline,
   dottedUnderline, dashedUnderline and doubleUnderline is the text, with
   and without extended underline support. *)
C17_PayloadPreserved ==
  (last.op \in NamedUnderlines /\ ~C14_ContainsSequence(last.text)) =>
     stripAnsi(last.value) = last.text

(* fallback branch on a two-line text: chalk closes and reopens the
   standard underline around the line break *)
C17_Witness ==
  /\ last.op = "curlyUnderline"
  /\ ~lastSupported
  /\ globals.chalkLevel = 3
  /\ last.text = <<"a", LF, "b">>
  /\ last.value = UNDERLINE_STANDARD \o <<"a">> \o UNDERLINE_RESET_STANDARD
                    \o <<LF>> \o UNDERLINE_STANDARD \o <<"b">>
                    \o UNDERLINE_RESET_STANDARD
  /\ stripAnsi(last.value) = last.text

C18_ColorString(rgb) ==
  <<"5", "8", ":", "2", ":", ":">> \o toString(rgb[1]) \o <<":">>
     \o toString(rgb[2]) \o <<":">> \o toString(rgb[3])

(* value has text at some position, sub before it and ESC[59m after it *)
C18_Around(value, text, sub) ==
  \E k \in 1..(Len(value) + 1) :
     /\ SubSeq(value, k, k + Len(text) - 1) = text
     /\ includes(SubSeq(value, 1, k - 1), sub)
     /\ includes(SubSeq(value, k + Len(text), Len(value)), <<ESC, "[", "5", "9", "m">>)

C18_Codes ==
  /\ lastSupported => C18_Around(last.value, last.text, C18_ColorString(last.rgb))
  /\ ~lastSupported => ~includes(last.value, <<"5", "8", ":">>)

(* C18 as stated: with support the result has "58:2::r:g:b" before the
   text and ESC[59m after it; without support it has no "58:"; in both
   cases stripAnsi(result) = text. *)
C18_Original ==
  (last.op = "underlineColor") =>
     (C18_Codes /\ stripAnsi(last.value) = last.text)

(* C18 amended: with support the result has "58:2::r:g:b" before the
   text and ESC[59m after it; without support it is chalk's standard
   underline of the text and has "58:" only if the text has; in both cases
   stripAnsi(result) = text for every text that contains no escape sequence
   that stripAnsi recognizes. *)
C18_UnderlineColor ==
  (last.op = "underlineColor") =>
     /\ lastSupported =>
           C18_Around(last.value, last.text, C18_ColorString(last.rgb))
     /\ ~lastSupported =>
           /\ last.value = chalkUnderline(globals, last.text)
           /\ includes(last.value, <<"5", "8", ":">>)
                 => includes(last.text, <<"5", "8", ":">>)
     /\ ~C14_ContainsSequence(last.text) => stripAnsi(last.value) = last.text

C18_Witness ==
  /\ last.op = "underlineColor"
  /\ lastSupported
  /\ last.rgb = <<255, 0, 128>>
  /\ last.text = <<"h", "i">>
  /\ last.value = <<ESC, "[", "4", "m">>
                    \o <<ESC, "[", "5", "8", ":", "2", ":", ":", "2", "5", "5",
                         ":", "0", ":", "1", "2", "8", "m">>
                    \o <<"h", "i">> \o <<ESC, "[", "5", "9", "m">>
                    \o <<ESC, "[", "2", "4", "m">>

C19_Digit == [double |-> "2", curly |-> "3", dotted |-> "4", dashed |-> "5"]

C19_HasExtendedCode(value) ==
  \/ \E n \in {"0", "1", "2", "3", "4", "5"} :
        includes(value, <<ESC, "[", "4", ":", n, "m">>)
  \/ includes(value, <<"5", "8", ":">>)

(* C19 as stated: with support, underline(text, style) and the four named
   wrappers give exactly ESC[4:Nm text ESC[4:0m with N = 2, 3, 4, 5 for
   double, curly, dotted, dashed; without support the result of underline,
   of the wrappers and of styledUnderline has no ESC[4:Nm and no "58:", it
   is chalk's standard underline of the text. *)
C19_Original ==
  /\ ( /\ last.op \in NamedUnderlines \cup {"underline"}
       /\ last.style # "single"
       /\ lastSupported )
     => last.value = <<ESC, "[", "4", ":", C19_Digit[last.style], "m">>
                       \o last.text \o <<ESC, "[", "4", ":", "0", "m">>
  /\ ( /\ last.op \in NamedUnderlines \cup {"underline", "styledUnderline"}
       /\ ~lastSupported )
     => /\ ~C19_HasExtendedCode(last.value)
        /\ last.value = chalkUnderline(globals, last.text)

(* C19 amended: the same with support; without support the result is
   chalk's standard underline of the text, and it has a code ESC[4:Nm or
   the characters "58:" only if the text itself has them. *)
C19_ExtendedCodes ==
  /\ ( /\ last.op \in NamedUnderlines \cup {"underline"}
       /\ last.style # "single"
       /\ lastSupported )
     => last.value = <<ESC, "[", "4", ":", C19_Digit[last.style], "m">>
                       \o last.text \o <<ESC, "[", "4", ":", "0", "m">>
  /\ ( /\ last.op \in NamedUnderlines \cup {"underline", "styledUnderline"}
       /\ ~lastSupported )
     => /\ last.value = chalkUnderline(globals, last.text)
        /\ \A n \in {"0", "1", "2", "3", "4", "5"} :
              includes(last.value, <<ESC, "[", "4", ":", n, "m">>)
                => includes(last.text, <<ESC, "[", "4", ":", n, "m">>)
        /\ includes(last.value, <<"5", "8", ":">>)
              => includes(last.text, <<"5", "8", ":">>)
        /\ (globals.chalkLevel > 0 /\ last.text = <<"h", "i">>)
             => last.value = <<ESC, "[", "4", "m", "h", "i", ESC, "[", "2", "4", "m">>

(* without support, a dashed underline of a text that has "58:" in it:
   the standard underline of the text, "58:" included *)
C19_Witness ==
  /\ last.op = "underline"
  /\ last.style = "dashed"
  /\ ~lastSupported
  /\ globals.chalkLevel = 3
  /\ last.text = <<"1", "2", ":", "5", "8", ":", "0", "3">>
  /\ last.value = <<ESC, "[", "4", "m">> \o last.text \o <<ESC, "[", "2", "4", "m">>

(* C20: each call of curly/dotted/dashed/doubleUnderline, underlineColor
   and styledUnderline follows the environment of that call: extended codes
   when TERM is "xterm-ghostty", the fallback when TERM is "dumb" and
   TERM_PROGRAM and KITTY_WINDOW_ID are unset (no call of
   resetDetectionCache or setExtendedUnderlineSupport is ever made).  The
   codes are those the function adds: the text has none of its own. *)
C20_FollowsEnvironment ==
  ( /\ last.op \in NamedUnderlines \cup {"underlineColor", "styledUnderline"}
    /\ ~C19_HasExtendedCode(last.text) ) =>
     /\ envIs(env, "TERM", S_xterm_ghostty) => C19_HasExtendedCode(last.value)
     /\ ( /\ envIs(env, "TERM", S_dumb)
          /\ ~isSet(env, "TERM_PROGRAM")
          /\ ~isSet(env, "KITTY_WINDOW_ID") )
        => ~C19_HasExtendedCode(last.value)

----------------------------------------------------------------------------
(* Hyperlinks (OSC 8): constants.ts and the hyperlink function.            *)

HYPERLINK_START == <<ESC, "]", "8", ";", ";">>

HYPERLINK_END == <<ESC, BACKSLASH>>

buildHyperlink_noClose(text, url) ==
  HYPERLINK_START \o url \o HYPERLINK_END \o text \o HYPERLINK_START

buildHyperlink(text, url) ==
  HYPERLINK_START \o url \o HYPERLINK_END \o text \o HYPERLINK_START
     \o HYPERLINK_END

hyperlink(text, url) == buildHyperlink(text, url)

MaxLinkPieces == 2

S_Click == <<"C", "l", "i", "c", "k">>

S_https_x_test ==
  <<"h", "t", "t", "p", "s", ":", "/", "/", "x", ".", "t", "e", "s", "t">>

LinkTexts == StripTexts(MaxLinkPieces) \cup {S_Click}

LinkUrls ==
  {<<>>, S_https_x_test, <<"m">>, <<"x", BACKSLASH>>, <<ESC>>,
   <<ESC, BACKSLASH>>, <<ESC, "[", "1", "m">>}

InitHyperlink ==
  /\ \E choice \in [DOMAIN UnderlineCands -> 0..2] :
       /\ \A n \in DOMAIN UnderlineCands : choice[n] <= Len(UnderlineCands[n])
       /\ env = mkEnv(UnderlineCands, choice, 0)
  /\ stdout = [s \in {"process.stdout"} |-> mkStdout(TRUE, 80, 24)]
  /\ stdin = [s \in {"process.stdin"} |-> [isTTY |-> FALSE, setRawMode |-> FALSE]]
  /\ terms = <<>>
  /\ chains = <<>>
  /\ last = NoCall
  /\ \E cache \in {"null", "true", "false"} :
       globals = [InitialGlobals EXCEPT !.supportsExtendedUnderline = cache]
  /\ console = InitialConsole
  /\ patches = <<>>

Hyperlink(text, url) ==
  /\ last' = [op |-> "hyperlink", text |-> text, url |-> url,
              value |-> hyperlink(text, url)]
  /\ UNCHANGED <<console, patches, globals, env, stdout, stdin, terms, chains>>

NextHyperlink ==
  /\ last = NoCall
  /\ \E text \in LinkTexts, url \in LinkUrls : Hyperlink(text, url)

SpecHyperlink == InitHyperlink /\ [][NextHyperlink]_vars

(* C21: in every detection state and environment hyperlink(text, url) is
   exactly ESC]8;; url ESC\ text ESC]8;; ESC\, and for every text without
   an escape sequence and every url without ESC,
   stripAnsi(hyperlink(text, url)) = text. *)
C21_Hyperlink ==
  (last.op = "hyperlink") =>
     /\ last.value = <<ESC, "]", "8", ";", ";">> \o last.url
                       \o <<ESC, BACKSLASH>> \o last.text
                       \o <<ESC, "]", "8", ";", ";">> \o <<ESC, BACKSLASH>>
     /\ ( /\ ~C14_ContainsSequence(last.text)
          /\ \A i \in 1..Len(last.url) : last.url[i] # ESC )
        => stripAnsi(last.value) = last.text

(* scenario C of the specification, on a terminal without any capability *)
C21_Witness ==
  /\ last.op = "hyperlink"
  /\ last.text = S_Click
  /\ last.url = S_https_x_test
  /\ envIs(env, "TERM", S_dumb)
  /\ globals.supportsExtendedUnderline = "false"
  /\ last.value = HYPERLINK_START \o S_https_x_test \o HYPERLINK_END
                    \o S_Click \o HYPERLINK_START \o HYPERLINK_END
  /\ stripAnsi(last.value) = S_Click

----------------------------------------------------------------------------
(* Lifecycle of the legacy detection cache: reads of
   supportsExtendedUnderline(), overrides, resets and changes of the
   environment.  The record of a read carries the history of its period,
   the calls since the last setExtendedUnderlineSupport/resetDetectionCache
   (or since the module was loaded).                                       *)

MaxReads == 3

(* the period a read made now belongs to *)
periodOf(l, e) ==
  IF l.op = "supportsExtendedUnderline" THEN l
  ELSE [reads      |-> 0,
        detections |-> 0,
        first      |-> "none",
        since      |-> IF l.op = "setExtendedUnderlineSupport" THEN l.supported
                       ELSE IF l.op = "resetDetectionCache" THEN "reset"
                       ELSE "start",
        before     |-> IF l.op \in {"setExtendedUnderlineSupport",
                                    "resetDetectionCache"}
                         THEN l.before ELSE "null",
        sinceEnv   |-> IF l.op \in {"setExtendedUnderlineSupport",
                                    "resetDetectionCache"}
                         THEN l.env ELSE e]

SupportsExtendedUnderlineRead ==
  LET period == periodOf(last, env)
      value  == supportsExtendedUnderline(globals, env)
      (* detectExtendedUnderline() is evaluated iff the cache is null *)
      detect == IF globals.supportsExtendedUnderline = "null" THEN 1 ELSE 0
  IN /\ period.reads < MaxReads
     /\ last' = [op         |-> "supportsExtendedUnderline",
                 value      |-> value,
                 reads      |-> period.reads + 1,
                 detections |-> period.detections + detect,
                 first      |-> IF period.reads = 0 THEN value ELSE period.first,
                 since      |-> period.since,
                 before     |-> period.before,
                 sinceEnv   |-> period.sinceEnv]
     /\ globals' = cacheAfterSupports(globals, env)
     /\ UNCHANGED <<console, patches, env, stdout, stdin, terms, chains>>

OverrideSupport(supported) ==
  /\ globals' = setExtendedUnderlineSupport(globals, supported)
  /\ last' = [op |-> "setExtendedUnderlineSupport", supported |-> supported,
              before |-> globals.supportsExtendedUnderline, env |-> env]
  /\ UNCHANGED <<console, patches, env, stdout, stdin, terms, chains>>

ResetCache ==
  /\ globals' = resetDetectionCache(globals)
  /\ last' = [op |-> "resetDetectionCache",
              before |-> globals.supportsExtendedUnderline, env |-> env]
  /\ UNCHANGED <<console, patches, env, stdout, stdin, terms, chains>>

(* process.env.X = v and delete process.env.X between two calls *)
AssignEnv(name, v) ==
  /\ env' = setEnv(env, name, v)
  /\ env' # env
  /\ UNCHANGED <<console, patches, globals, last, stdout, stdin, terms, chains>>

UnsetEnv(name) ==
  /\ name \in DOMAIN env
  /\ env' = deleteEnv(env, name)
  /\ UNCHANGED <<console, patches, globals, last, stdout, stdin, terms, chains>>

InitCache ==
  /\ InitUnderline
  /\ globals.chalkLevel = 3

NextCache ==
  \/ SupportsExtendedUnderlineRead
  \/ \E supported \in {"true", "false", "null"} : OverrideSupport(supported)
  \/ ResetCache
  \/ \E name \in DOMAIN UnderlineCands :
        \E i \in DOMAIN UnderlineCands[name] :
           AssignEnv(name, UnderlineCands[name][i])
  \/ \E name \in DOMAIN UnderlineCands : UnsetEnv(name)

SpecCache == InitCache /\ [][NextCache]_vars

(* C22: once supportsExtendedUnderline() has returned a value, every later
   call returns the same value, whatever is done to TERM, TERM_PROGRAM and
   KITTY_WINDOW_ID, until setExtendedUnderlineSupport or resetDetectionCache
   is called; between two such calls detectExtendedUnderline is evaluated
   at most once. *)
C22_Memoized ==
  (last.op = "supportsExtendedUnderline") =>
     /\ last.value = last.first
     /\ last.detections <= 1

(* third read of a period that began with a detection under a supporting
   terminal; the environment has since become one without support *)
C22_Witness ==
  /\ last.op = "supportsExtendedUnderline"
  /\ last.since \in {"start", "reset"}
  /\ last.reads = 3
  /\ last.detections = 1
  /\ last.value = TRUE
  /\ envIs(env, "TERM", S_dumb)
  /\ ~detectExtendedUnderline(env)

(* C23: after setExtendedUnderlineSupport(v), v true or false, every
   supportsExtendedUnderline() call returns v, in every environment and also
   when the opposite value was cached before, across any number of reads
   and environment changes until the next override or reset (and without
   evaluating detectExtendedUnderline). *)
C23_OverrideWins ==
  (last.op = "supportsExtendedUnderline" /\ last.since \in {"true", "false"}) =>
     /\ last.value = (last.since = "true")
     /\ last.detections = 0
     /\ globals.supportsExtendedUnderline = last.since

C23_Witness ==
  /\ last.op = "supportsExtendedUnderline"
  /\ last.since = "false"
  /\ last.before = "true"
  /\ last.reads >= 2
  /\ detectExtendedUnderline(env)
  /\ env # last.sinceEnv
  /\ last.value = FALSE

(* C24: after resetDetectionCache() or setExtendedUnderlineSupport(null) the
   next supportsExtendedUnderline() call returns detectExtendedUnderline()
   of the environment at the time of that call and caches that result. *)
C24_RedetectAfterReset ==
  [][ ( /\ last.op # "supportsExtendedUnderline"
        /\ last'.op = "supportsExtendedUnderline"
        /\ last'.since \in {"reset", "null"} )
      => /\ last'.value = detectExtendedUnderline(env')
         /\ globals'.supportsExtendedUnderline =
              (IF detectExtendedUnderline(env') THEN "true" ELSE "false") ]_vars

(* first read after a reset: true was cached before the reset, the
   environment at the reset supported extended underline, the environment
   of the read does not *)
C24_Witness ==
  /\ last.op = "supportsExtendedUnderline"
  /\ last.since = "reset"
  /\ last.reads = 1
  /\ last.before = "true"
  /\ detectExtendedUnderline(last.sinceEnv)
  /\ ~detectExtendedUnderline(env)
  /\ last.value = FALSE
  /\ globals.supportsExtendedUnderline = "false"

----------------------------------------------------------------------------
(* Disposal of a Term, checked under SpecTerm.                             *)

(* the Terms as they would be had the disposal hook never been invoked *)
C25_NeverDisposed == [t \in 1..Len(terms) |-> [terms[t] EXCEPT !.disposed = FALSE]]

(* C25: the disposal hook can be invoked on every Term, disposed or not,
   and for a disposed Term the capability queries, the styling of every
   chain and write/writeLine are what they are for the same Term not
   disposed (stripAnsi is a function of its argument alone). *)
C25_DisposeHarmless ==
  \A t \in 1..Len(terms) :
     /\ ENABLED Dispose(t)
     /\ hasCursor(terms[t]) = hasCursor(C25_NeverDisposed[t])
     /\ hasInput(terms[t]) = hasInput(C25_NeverDisposed[t])
     /\ hasColor(terms[t]) = hasColor(C25_NeverDisposed[t])
     /\ hasUnicode(terms[t]) = hasUnicode(C25_NeverDisposed[t])
     /\ \A c \in 1..Len(chains) :
          applyChain(chains, terms, c, <<"h", "i">>)
            = applyChain(chains, C25_NeverDisposed, c, <<"h", "i">>)
     /\ (Len(stdout[terms[t].stdout].written) < MaxWrites) =>
          /\ ENABLED ( /\ Write(t, <<"h", "i">>)
                       /\ stdout'[terms[t].stdout].written
                            = Append(stdout[terms[t].stdout].written, <<"h", "i">>) )
          /\ ENABLED ( /\ WriteLine(t, <<"h", "i">>)
                       /\ stdout'[terms[t].stdout].written
                            = Append(stdout[terms[t].stdout].written,
                                     <<"h", "i", LF>>) )

(* the only Term has been disposed, was then written to, and can be
   disposed again *)
C25_Witness ==
  /\ Len(terms) = 1
  /\ terms[1].disposed
  /\ last.op = "writeLine"
  /\ stdout[terms[1].stdout].written = << <<"h", "i", LF>> >>
  /\ ENABLED Dispose(1)

----------------------------------------------------------------------------
(* patch-console.ts: patchConsole and the PatchedConsole it returns.       *)
(*                                                                         *)
(* A function value is native(m), an original console method, or           *)
(* interceptor(p, m), the arrow function patch p installed for method m.   *)
(* console[m].bind(console) behaves as console[m] did at that moment, so   *)
(* it is the same function value.  A call is evaluated as a whole, with    *)
(* every nested call it makes; the evaluation state is the patches, what   *)
(* the native methods printed, the calls made on the console object, the   *)
(* trace of events of this evaluation and whether the stack overflowed.    *)

STDERR_METHODS_errorOnly == {"error"}

STDERR_METHODS == {"error", "warn"}

(* the entry an interceptor builds *)
ConsoleEntry(method, args) ==
  [method |-> method, args |-> args,
   stream |-> IF method \in STDERR_METHODS THEN "stderr" ELSE "stdout"]

(* callbacks passed to subscribe: "read" is () => patched.getSnapshot(),
   "noop" is () => {}, "log" is () => console.log('new entry') *)
Callbacks == {"read", "noop", "log"}

S_new_entry == <<"new entry">>

(* The engine throws RangeError at the call that finds the stack exhausted.
   How much stack is left when the console is called is the caller's
   business and how much a call takes is the engine's (bound functions,
   spread calls, the builtin forEach, inlining), so the program does not
   determine which call that is: the stack has room for a number of calls,
   counted as they are made, that is chosen when the console is called.
   With no room the call of the console method itself throws.  The calls an
   interceptor makes before its entry is in the array (STDERR_METHODS.has,
   entries.push) leave no trace when they throw, as when the call of the
   interceptor throws: they are counted with it. *)
MaxRoom == 9

StackRoom == 0..MaxRoom

(* a call: it takes its frame, or the stack is exhausted and RangeError is
   thrown *)
enter(st) ==
  IF st.room = 0 THEN [st EXCEPT !.threw = TRUE]
  ELSE [st EXCEPT !.room = @ - 1]

Event(ev, p, method, args, cb, snapshot) ==
  [ev |-> ev, patch |-> p, method |-> method, args |-> args, cb |-> cb,
   snapshot |-> snapshot]

RECURSIVE callFn(_, _, _)
RECURSIVE notify(_, _, _)

(* console[method](...args); the record of the call tells whether the
   method got as far as its first effect (an interceptor its push, a native
   method its output) *)
callConsole(st, method, args) ==
  callFn([st EXCEPT !.calls = Append(@, <<method, args, ~enter(st).threw>>)],
         console.methods[method], args)

(* the iterations of subscribers.forEach((subscriber) => subscriber()) from
   the i-th subscriber on: the subscriber is called, "read" calls
   getSnapshot and "log" calls console.log; an error thrown ends the
   iteration *)
notify(st, p, i) ==
  IF st.threw \/ i > Len(st.patches[p].subscribers) THEN st
  ELSE LET cb == st.patches[p].subscribers[i]
           entered ==
             IF enter(st).threw THEN enter(st)
             ELSE [enter(st) EXCEPT !.trace =
                     Append(@, Event("callback", p, "none", <<>>, cb, <<>>))]
           ran == IF entered.threw \/ cb = "noop" THEN entered
                  ELSE IF cb = "log"
                    THEN callConsole(entered, "log", S_new_entry)
                  ELSE IF enter(entered).threw THEN enter(entered)
                  ELSE [enter(entered) EXCEPT !.trace =
                          Append(@, Event("snapshot", p, "none", <<>>, cb,
                                          entered.patches[p].entries))]
       IN notify(ran, p, i + 1)

(* a call of a function value: a native method prints, an interceptor
   pushes its entry, calls its original unless suppressed, and calls
   forEach; an error thrown by a call it makes ends it there *)
callFn(st, fn, args) ==
  IF st.threw THEN st
  ELSE IF enter(st).threw THEN enter(st)
  ELSE IF fn.kind = "native"
    THEN [enter(st) EXCEPT
            !.output = Append(@, <<fn.method, args>>),
            !.trace = Append(@, Event("native", 0, fn.method, args,
                                      "none", <<>>))]
  ELSE LET p == fn.patch
           pushed == [enter(st) EXCEPT
                        !.patches[p].entries =
                           Append(@, ConsoleEntry(fn.method, args)),
                        !.trace = Append(@, Event("entry", p, fn.method, args,
                                                  "none", <<>>))]
           afterOriginal == IF st.patches[p].suppress THEN pushed
                     ELSE callFn(pushed, st.patches[p].originals[fn.method],
                                 args)
           forEach == IF afterOriginal.threw THEN afterOriginal
                      ELSE enter(afterOriginal)
       IN notify(forEach, p, 1)

(* patchConsole(console, {suppress}): the closure and the patched console *)
patchConsole(con, pats, suppress) ==
  [patches |-> Append(pats,
      [suppress    |-> suppress,
       entries     |-> <<>>,
       entriesRef  |-> Len(pats) + 1,    \* identity of the entries array
       subscribers |-> <<>>,             \* the Set, in insertion order
       originals   |-> con.methods,
       \* history, not read by the code:
       disposed    |-> FALSE,            \* dispose() has been called
       createdAt   |-> Len(con.calls),   \* console calls made before the patch
       ended       |-> {},               \* callbacks unsubscribed or cleared by dispose
       seen        |-> [ref |-> 0, items |-> <<>>]]),  \* last getSnapshot() result
   console |-> [con EXCEPT !.methods =
                  [m \in METHODS |-> interceptor(Len(pats) + 1, m)]]]

(* getSnapshot(): the entries array itself *)
getSnapshot(patch) == [ref |-> patch.entriesRef, items |-> patch.entries]

Range(seq) == {seq[i] : i \in DOMAIN seq}

(* subscribers.add(cb) and subscribers.delete(cb) *)
setAdd(seq, x) == IF x \in Range(seq) THEN seq ELSE Append(seq, x)

setDelete(seq, x) == SelectSeq(seq, LAMBDA y : y # x)

ConsoleArgs == {<<"a">>}

PatchConsole(suppress) ==
  /\ patches' = patchConsole(console, patches, suppress).patches
  /\ console' = patchConsole(console, patches, suppress).console
  /\ last' = NoCall
  /\ UNCHANGED <<globals, env, stdout, stdin, terms, chains>>

(* console[method](...args) called from outside, with room on the stack
   for the given number of calls *)
ConsoleCall(method, args, room) ==
  /\ LET st == callConsole([patches |-> patches, output |-> console.output,
                            calls |-> console.calls, trace |-> <<>>,
                            threw |-> FALSE, room |-> room],
                           method, args)
     IN /\ patches' = st.patches
        /\ console' = [console EXCEPT !.output = st.output, !.calls = st.calls]
        /\ last' = [op |-> "console", method |-> method, args |-> args,
                    ample |-> room = MaxRoom, trace |-> st.trace,
                    outcome |-> IF st.threw THEN "RangeError" ELSE "returned"]
  /\ UNCHANGED <<globals, env, stdout, stdin, terms, chains>>

GetSnapshot(p) ==
  /\ patches' = [patches EXCEPT ![p].seen = getSnapshot(patches[p])]
  /\ last' = [op |-> "getSnapshot", patch |-> p,
              value |-> getSnapshot(patches[p]), prev |-> patches[p].seen]
  /\ UNCHANGED <<console, globals, env, stdout, stdin, terms, chains>>

Subscribe(p, cb) ==
  /\ patches' = [patches EXCEPT ![p].subscribers = setAdd(@, cb),
                                ![p].ended = @ \ {cb}]
  /\ last' = NoCall
  /\ UNCHANGED <<console, globals, env, stdout, stdin, terms, chains>>

(* the function subscribe(cb) returned, for a cb subscribed at some time *)
Unsubscribe(p, cb) ==
  /\ cb \in Range(patches[p].subscribers) \cup patches[p].ended
  /\ patches' = [patches EXCEPT ![p].subscribers = setDelete(@, cb),
                                ![p].ended = @ \cup {cb}]
  /\ last' = NoCall
  /\ UNCHANGED <<console, globals, env, stdout, stdin, terms, chains>>

DisposePatch_keepSubscribers(p) ==
  /\ console' = [console EXCEPT !.methods = patches[p].originals]
  /\ patches' = [patches EXCEPT ![p].ended = @ \cup Range(patches[p].subscribers),
                                ![p].disposed = TRUE]
  /\ last' = NoCall
  /\ UNCHANGED <<globals, env, stdout, stdin, terms, chains>>

(* patched.dispose() and patched[Symbol.dispose](): restore(), then
   subscribers.clear() *)
DisposePatch(p) ==
  /\ console' = [console EXCEPT !.methods = patches[p].originals]
  /\ patches' = [patches EXCEPT ![p].subscribers = <<>>,
                                ![p].ended = @ \cup Range(patches[p].subscribers),
                                ![p].disposed = TRUE]
  /\ last' = NoCall
  /\ UNCHANGED <<globals, env, stdout, stdin, terms, chains>>

InitConsole ==
  /\ env = [n \in {} |-> <<>>]
  /\ stdout = [s \in {"process.stdout"} |-> mkStdout(TRUE, 80, 24)]
  /\ stdin = [s \in {"process.stdin"} |-> [isTTY |-> FALSE, setRawMode |-> FALSE]]
  /\ terms = <<>>
  /\ chains = <<>>
  /\ last = NoCall
  /\ globals = InitialGlobals
  /\ console = InitialConsole
  /\ patches = <<>>

MaxPatches == 1

MaxCalls == 2

(* one patch at a time, console calls with every method made with ample
   room on the stack, snapshots and disposal *)
NextConsole ==
  \/ /\ Len(patches) < MaxPatches
     /\ \E suppress \in BOOLEAN : PatchConsole(suppress)
  \/ /\ Len(console.calls) < MaxCalls
     /\ \E method \in METHODS, args \in ConsoleArgs :
           ConsoleCall(method, args, MaxRoom)
  \/ \E p \in 1..Len(patches) : GetSnapshot(p)
  \/ \E p \in 1..Len(patches) : DisposePatch(p)

SpecConsole == InitConsole /\ [][NextConsole]_vars

(* one patch at a time, console calls with every method made with ample
   room on the stack and console.warn calls made with any room, the
   documented callback subscribed to the patch whose interceptors are the
   console's methods, and disposal *)
NextEntries ==
  \/ /\ Len(patches) < MaxPatches
     /\ \E suppress \in BOOLEAN : PatchConsole(suppress)
  \/ /\ Len(console.calls) < MaxCalls
     /\ \/ \E method \in METHODS, args \in ConsoleArgs :
              ConsoleCall(method, args, MaxRoom)
        \/ \E args \in ConsoleArgs, room \in StackRoom :
              ConsoleCall("warn", args, room)
  \/ \E p \in 1..Len(patches) :
        /\ console.methods["log"] = interceptor(p, "log")
        /\ Subscribe(p, "log")
  \/ \E p \in 1..Len(patches) : DisposePatch(p)

SpecEntries == InitConsole /\ [][NextEntries]_vars

MaxNotifyCalls == 1

MaxSubscribes == 2

(* the callbacks ever subscribed to a patch *)
everSubscribed(patch) == Range(patch.subscribers) \cup patch.ended

RECURSIVE countSubscribed(_, _)
countSubscribed(pats, n) ==
  IF n = 0 THEN 0
  ELSE Cardinality(everSubscribed(pats[n])) + countSubscribed(pats, n - 1)

(* the console after a = patchConsole(console, ...) and then
   b = patchConsole(console, ...): b's interceptors are installed and call
   a's, which call the native methods *)
InitNotify ==
  /\ env = [n \in {} |-> <<>>]
  /\ stdout = [s \in {"process.stdout"} |-> mkStdout(TRUE, 80, 24)]
  /\ stdin = [s \in {"process.stdin"} |-> [isTTY |-> FALSE, setRawMode |-> FALSE]]
  /\ terms = <<>>
  /\ chains = <<>>
  /\ last = NoCall
  /\ globals = InitialGlobals
  /\ \E sa \in BOOLEAN, sb \in BOOLEAN :
       LET a == patchConsole(InitialConsole, <<>>, sa)
           b == patchConsole(a.console, a.patches, sb)
       IN console = b.console /\ patches = b.patches

(* callbacks subscribed and unsubscribed, console.log calls with any room
   on the stack, and disposal of the two patches in any order *)
NextNotify ==
  \/ /\ Len(console.calls) < MaxNotifyCalls
     /\ \E args \in ConsoleArgs, room \in StackRoom :
           ConsoleCall("log", args, room)
  \/ \E p \in 1..Len(patches), cb \in Callbacks :
        /\ \/ cb \in everSubscribed(patches[p])
           \/ countSubscribed(patches, Len(patches)) < MaxSubscribes
        /\ Subscribe(p, cb)
  \/ \E p \in 1..Len(patches), cb \in Callbacks : Unsubscribe(p, cb)
  \/ \E p \in 1..Len(patches) : DisposePatch(p)

SpecNotify == InitNotify /\ [][NextNotify]_vars

MaxNested == 2

(* several patches on one console, disposed in any order and as often as
   one likes, and console.log calls made with ample room on the stack *)
NextRestore ==
  \/ /\ Len(patches) < MaxNested
     /\ \E suppress \in BOOLEAN : PatchConsole(suppress)
  \/ /\ Len(console.calls) < MaxCalls
     /\ \E args \in ConsoleArgs : ConsoleCall("log", args, MaxRoom)
  \/ \E p \in 1..Len(patches) : DisposePatch(p)

SpecRestore == InitConsole /\ [][NextRestore]_vars

----------------------------------------------------------------------------
(* Properties of the console patch (SpecEntries, SpecRestore, SpecConsole, *)
(* SpecNotify).                                                            *)

(* the console's methods are the interceptors of patch p *)
C26_Installed(p) == \A m \in METHODS : console.methods[m] = interceptor(p, m)

C26_Entry(call) ==
  [method |-> call[1], args |-> call[2],
   stream |-> IF call[1] \in {"error", "warn"} THEN "stderr" ELSE "stdout"]

C26_EntriesOf(calls) == [i \in 1..Len(calls) |-> C26_Entry(calls[i])]

(* the calls whose console method got as far as its first effect: the
   others found the stack exhausted before *)
C26_Ran(calls) == SelectSeq(calls, LAMBDA call : call[3])

(* C26 as stated: a call of console.log/info/warn/error/debug made while
   the interceptors of a patch are the console's methods appends exactly
   one entry {method, args, stream} to the end of that patch's snapshot,
   with stream "stderr" for error and warn and "stdout" otherwise; the
   snapshot of the only patch of a console lists all calls made since
   patchConsole in call order; and no step, dispose included, removes or
   changes an entry of any snapshot. *)
C26_Original ==
  [][ /\ \A p \in 1..Len(patches) :
           /\ p <= Len(patches')
           /\ Len(patches'[p].entries) >= Len(patches[p].entries)
           /\ SubSeq(patches'[p].entries, 1, Len(patches[p].entries))
                = patches[p].entries
           /\ (C26_Installed(p) /\ console'.calls # console.calls) =>
                patches'[p].entries =
                  patches[p].entries
                    \o C26_EntriesOf(SubSeq(console'.calls,
                                            Len(console.calls) + 1,
                                            Len(console'.calls)))
      /\ (Len(patches') = 1 /\ ~patches'[1].disposed) =>
           getSnapshot(patches'[1]).items =
             C26_EntriesOf(SubSeq(console'.calls, patches'[1].createdAt + 1,
                                  Len(console'.calls)))
    ]_vars

(* C26 amended: the same for every call that does not find the stack
   exhausted before its entry is pushed, the calls a subscribed callback
   makes included; a call that does throws RangeError and appends nothing,
   and the snapshot lists the other calls in call order. *)
C26_EntriesAppended ==
  [][ /\ \A p \in 1..Len(patches) :
           /\ p <= Len(patches')
           /\ Len(patches'[p].entries) >= Len(patches[p].entries)
           /\ SubSeq(patches'[p].entries, 1, Len(patches[p].entries))
                = patches[p].entries
           /\ (C26_Installed(p) /\ console'.calls # console.calls) =>
                patches'[p].entries =
                  patches[p].entries
                    \o C26_EntriesOf(C26_Ran(SubSeq(console'.calls,
                                                    Len(console.calls) + 1,
                                                    Len(console'.calls))))
      /\ (Len(patches') = 1 /\ ~patches'[1].disposed) =>
           getSnapshot(patches'[1]).items =
             C26_EntriesOf(C26_Ran(SubSeq(console'.calls,
                                          patches'[1].createdAt + 1,
                                          Len(console'.calls))))
      /\ ( /\ Len(console'.calls) > Len(console.calls)
           /\ ~console'.calls[Len(console.calls) + 1][3] ) =>
           /\ last'.outcome = "RangeError"
           /\ \A p \in 1..Len(patches) : patches'[p].entries = patches[p].entries
    ]_vars

(* console.error on a patched console, then console.warn called with the
   stack exhausted: the first call has its entry, the second has none *)
C26_Witness ==
  /\ Len(patches) = 1
  /\ ~patches[1].disposed
  /\ last.op = "console" /\ last.outcome = "RangeError"
  /\ console.calls = << <<"error", <<"a">>, TRUE>>, <<"warn", <<"a">>, FALSE>> >>
  /\ getSnapshot(patches[1]).items =
       << [method |-> "error", args |-> <<"a">>, stream |-> "stderr"] >>

(* C27: once every patch has been disposed, in whatever order and however
   often, the console methods are the ones the console had before the
   first patchConsole call. *)
C27_Restored ==
  (Len(patches) > 0 /\ \A p \in 1..Len(patches) : patches[p].disposed) =>
     \A m \in METHODS : console.methods[m] = native(m)

(* C28: two getSnapshot() calls with no console call in between return
   the identical value, and the value returned after a new entry arrived
   is not identical to the one returned before. *)
C28_SnapshotIdentity ==
  (last.op = "getSnapshot" /\ last.prev.ref # 0) =>
     /\ (last.value.items = last.prev.items) => last.value.ref = last.prev.ref
     /\ (last.value.items # last.prev.items) => last.value.ref # last.prev.ref

C29_IsEntry(e, p) == e.ev = "entry" /\ e.patch = p

(* index of the latest entry event of patch p before event i, or 0 *)
C29_EntryBefore(t, p, i) ==
  LET js == {j \in 1..(i - 1) : C29_IsEntry(t[j], p)}
  IN IF js = {} THEN 0 ELSE CHOOSE j \in js : \A k \in js : k <= j

(* the first event the original of patch p produces for this call *)
C29_IsOriginalEvent(e, p, method, args) ==
  LET orig == patches[p].originals[method]
  IN /\ e.method = method
     /\ e.args = args
     /\ IF orig.kind = "native" THEN e.ev = "native"
        ELSE C29_IsEntry(e, orig.patch)

C29_CallbacksOf(t, p) ==
  LET evs == SelectSeq(t, LAMBDA e : e.ev = "callback" /\ e.patch = p)
  IN [i \in 1..Len(evs) |-> evs[i].cb]

(* what holds of every callback invocation and of every snapshot a
   callback reads, however the call ends *)
C29_Invocations ==
  LET t == last.trace
  IN /\ \A i \in 1..Len(t) :
          (t[i].ev = "callback") =>
             LET p == t[i].patch
                 j == C29_EntryBefore(t, p, i)
                 since == C29_CallbacksOf(SubSeq(t, j + 1, i), p)
             IN /\ j > 0
                /\ ~patches[p].suppress =>
                     \E k \in (j + 1)..(i - 1) :
                        C29_IsOriginalEvent(t[k], p, t[j].method, t[j].args)
                /\ since = SubSeq(patches[p].subscribers, 1, Len(since))
                /\ t[i].cb \in Range(patches[p].subscribers)
                /\ t[i].cb \notin patches[p].ended
     /\ \A i \in 1..Len(t) :
          (t[i].ev = "snapshot") =>
             LET p == t[i].patch
                 j == C29_EntryBefore(t, p, i)
             IN /\ j > 0
                /\ t[i].snapshot # <<>>
                /\ t[i].snapshot[Len(t[i].snapshot)]
                     = C26_Entry(<<t[j].method, t[j].args>>)
     /\ \A j \in 1..Len(t) :
          (t[j].ev = "entry" /\ patches[t[j].patch].suppress) =>
             (j = Len(t) \/ t[j + 1].ev = "callback")

(* every interceptor that ran invoked each callback subscribed to its
   patch exactly once *)
C29_EachOnce ==
  \A p \in 1..Len(patches) :
     C29_CallbacksOf(last.trace, p) =
       IF \E j \in 1..Len(last.trace) : C29_IsEntry(last.trace[j], p)
         THEN patches[p].subscribers ELSE <<>>

(* C29 as stated: each console call on a patched console invokes every
   callback that is subscribed exactly once, after the entry is in the
   snapshot and, unless suppress, after the original method was called
   with the same arguments (with suppress the original is not called); a
   callback is not invoked after its unsubscribe function or dispose(). *)
C29_Original ==
  (last.op = "console") => (C29_Invocations /\ C29_EachOnce)

(* C29 amended: a console call that returns has invoked every subscribed
   callback exactly once, in subscription order; a call that ends with an
   exception (RangeError: the stack is exhausted, as it always is in the
   end when a callback calls the console) has invoked the callbacks up to
   the one at which the exception arose and none after it.  In both cases
   a callback is invoked after the entry is in the snapshot and, unless
   suppress, after the original method was called with the same arguments,
   not twice by one run of an interceptor, and not after its unsubscribe
   function or dispose(). *)
C29_NotificationProtocol ==
  (last.op = "console") =>
     /\ C29_Invocations
     /\ (last.outcome = "returned") => C29_EachOnce

(* patch 2 is installed over patch 1; the call ran both interceptors, and
   patch 1 notified its two subscribers in subscription order after its
   entry was pushed and the native method had printed; the first read the
   snapshot with the entry in it *)
C29_Witness ==
  /\ last.op = "console"
  /\ last.outcome = "returned"
  /\ Len(patches) = 2
  /\ ~patches[1].suppress /\ ~patches[2].suppress
  /\ patches[1].subscribers = <<"read", "noop">>
  /\ Len(last.trace) = 6
  /\ C29_IsEntry(last.trace[1], 2)
  /\ C29_IsEntry(last.trace[2], 1)
  /\ last.trace[3].ev = "native"
  /\ last.trace[4].ev = "callback" /\ last.trace[4].patch = 1
  /\ last.trace[4].cb = "read"
  /\ last.trace[5].ev = "snapshot"
  /\ last.trace[5].snapshot = << ConsoleEntry("log", <<"a">>) >>
  /\ last.trace[6].ev = "callback" /\ last.trace[6].cb = "noop"

(* C30: a console call on a patched console that is made with room on the
   stack for MaxRoom calls, more than a call needs whose callbacks do not
   call the console, returns, also when a subscribed callback itself calls
   console.log. *)
C30_CallReturns ==
  (last.op = "console" /\ last.ample) => last.outcome = "returned"

====
